---- MODULE Spec2Model ----
(***************************************************************************)
(* Tool lifecycle (register / update / deregister / status query) of the   *)
(* dynamic tool runtime, over the DynamoDB tool index and the S3 artifact  *)
(* cache, with the validation service the lifecycle manager calls.         *)
(*                                                                         *)
(* Abstractions:                                                           *)
(*  - a source text is a sequence of lines taken from a fixed table of    *)
(*    statements ("source lines" below); "ws" is a blank line and "bad" a  *)
(*    line that does not parse;                                            *)
(*  - the analyzers are computed from what the parser and the patterns     *)
(*    give for each line; CPU seconds are integer milliseconds;            *)
(*  - SHA-256 is collision free: a digest is the pair it was computed from;*)
(*  - every call of a store primitive may fail; a call of an operation     *)
(*    takes the set of store call sites that fail while it runs;           *)
(*  - each operation is an operator from (state, inputs, failures) to its  *)
(*    outcome and the state it leaves; the actions apply these operators.  *)
(*                                                                         *)
(* Four specifications: Spec (the lifecycle manager), ValidationSpec (the  *)
(* validation service called directly, with policy updates), AnalysisSpec  *)
(* (the analyzers, the content hash and the service applied to one source  *)
(* drawn from all sources of at most MaxLen lines) and ConcurrentSpec (two *)
(* threads whose calls overlap, one statement of a call at a time).        *)
(***************************************************************************)
EXTENDS Integers, Sequences, FiniteSets, TLC

\* ------------------------------------------------------------------ bounds
\* tool ids uuid4 hands out in one behaviour
MaxTools == 2
\* cap on an artifact's usage_count
MaxUsage == 1

\* ------------------------------------------------------------------ inputs
\* the agents that call update_tool and deregister_tool
Agents == {"agent-1", "agent-2"}

\* the agents that call register_tool
Owners == {"agent-1"}

SupportedLanguages == {"python", "javascript", "typescript"}

\* ToolDefinition: the fields the lifecycle reads (description, schema and
\* metadata are carried like name and version and are left out)
Definition(version, language, code) ==
    [name |-> "tool", version |-> version, language |-> language, code |-> code]

\* definitions that pass validate_structure: a valid source in two versions,
\* a second valid source, and a source the analyzer rejects
WellFormedDefinitions ==
    { Definition("1.0.0", "python", <<"stmt">>),
      Definition("2.0.0", "python", <<"stmt">>),
      Definition("1.0.0", "python", <<"stmt2">>),
      Definition("1.0.0", "python", <<"import_os">>) }

\* a definition validate_structure rejects: blank code
MalformedDefinitions == { Definition("1.0.0", "python", <<"ws">>) }

ToolDefinitions == WellFormedDefinitions \cup MalformedDefinitions

\* store call sites
FaultPoints ==
    { "s3_get", "s3_head", "s3_put_json", "s3_put_code", "s3_put_audit", "s3_delete_json",
      "s3_delete_code", "db_get", "db_put", "db_update", "db_delete", "db_query" }

\* what fails during one call of an operation: the registry call or not, and
\* the store call sites that fail
Environment(registry_ok, F) == [registry_ok |-> registry_ok, F |-> F]

\* register_tool: one failing store call site before the publish, or a
\* failing publish with or without a failing rollback delete
RegisterEnvironments ==
    { Environment(TRUE, {}) }
    \cup { Environment(TRUE, {p}) :
             p \in {"s3_get", "s3_head", "s3_put_json", "s3_put_code", "db_put"} }
    \cup { Environment(FALSE, {}), Environment(FALSE, {"db_delete"}) }

\* update_tool: one failing store call site, or a failing metadata sync
UpdateEnvironments ==
    { Environment(TRUE, {}), Environment(FALSE, {}) }
    \cup { Environment(TRUE, {p}) :
             p \in {"db_get", "s3_head", "s3_get", "s3_put_json", "s3_put_code", "db_update"} }

\* deregister_tool: one failing store call site, or a failing remote deregistration
DeregisterEnvironments ==
    { Environment(TRUE, {}), Environment(FALSE, {}) }
    \cup { Environment(TRUE, {p}) :
             p \in {"db_get", "db_update", "db_delete", "db_query",
                    "s3_delete_json", "s3_delete_code"} }

\* get_tool_status: the read of the record fails or not
StatusEnvironments == { Environment(TRUE, {}), Environment(TRUE, {"db_get"}) }

\* ------------------------------------------------------------------ state
VARIABLES
    tool_index,     \* DynamoDB table: toolId -> item, for the items present
    s3_objects,     \* S3 bucket: key -> object, for the objects present
    next_id,        \* number of tool ids uuid4 has handed out
    validated,      \* content hashes whose source passed validate_code's analysis and policy check
    policy,         \* ValidationService.policy, the policy its evaluator enforces
    probe,          \* the (source, language) handed to the analyzers and the hash function
    answer,         \* what the last call on the probe returned
    calls,          \* the calls in flight, one per thread, where calls overlap
    analyzers,      \* the lists the two analyzers of the CodeValidator hold, by reference
    lists           \* the list objects: reference -> contents

\* the state only overlapping calls use
concurrent == <<calls, analyzers, lists>>

vars == <<tool_index, s3_objects, next_id, validated, policy, probe, answer, calls,
          analyzers, lists>>


\* ------------------------------------------------------------------ values
\* Python's None
NoneValue == [kind |-> "None"]

\* an attribute a DynamoDB item does not carry
Missing == "<missing>"

\* item.get("codeHash") of an item without that attribute
NoHash == <<>>

\* what a call returns or raises, and the stores it leaves
Returned(v, s3) == [exc |-> "none", reason |-> "ok", value |-> v, s3 |-> s3]

Raised(e, why, s3) == [exc |-> e, reason |-> why, value |-> NoneValue, s3 |-> s3]

\* ------------------------------------------------------------------ ToolDefinition
\* str.strip() on a token sequence: drop leading and trailing whitespace
RECURSIVE StripLeft(_)
StripLeft(code) ==
    IF code # <<>> /\ Head(code) = "ws" THEN StripLeft(Tail(code)) ELSE code

RECURSIVE StripRight(_)
StripRight(code) ==
    IF code # <<>> /\ code[Len(code)] = "ws"
    THEN StripRight(SubSeq(code, 1, Len(code) - 1))
    ELSE code

Strip(code) == StripRight(StripLeft(code))

\* "not s or not s.strip()" for a one-word field
BlankField(s) == s = ""

\* ToolDefinition.validate_structure: the list of structure errors
validate_structure(d) ==
    (IF BlankField(d.name) THEN <<"Tool name is required">> ELSE <<>>)
    \o (IF BlankField(d.version) THEN <<"Tool version is required">> ELSE <<>>)
    \o (IF d.language \notin SupportedLanguages THEN <<"Unsupported language">> ELSE <<>>)
    \o (IF d.code = <<>> \/ Strip(d.code) = <<>> THEN <<"Tool code is required">> ELSE <<>>)

\* ------------------------------------------------------------------ ArtifactStorage keys
\* a content hash of the text as submitted, without code.strip()
compute_code_hash_unstripped(code, language) == <<language, code>>

\* ArtifactStorage.compute_code_hash: sha256 of "<language>:<code.strip()>"
compute_code_hash(code, language) == <<language, Strip(code)>>

\* ArtifactStorage._get_artifact_key
get_artifact_key(code_hash) == <<"artifacts", code_hash>>

\* ArtifactStorage._get_code_key
get_code_key(code_hash, language) ==
    <<"code", code_hash,
      CASE language = "python" -> "py"
        [] language = "javascript" -> "js"
        [] language = "typescript" -> "ts"
        [] OTHER -> "txt">>

\* ------------------------------------------------------------------ S3
S3Put(s3, key, obj) ==
    [k \in DOMAIN s3 \cup {key} |-> IF k = key THEN obj ELSE s3[k]]

S3Delete(s3, key) == [k \in DOMAIN s3 \ {key} |-> s3[k]]

\* ------------------------------------------------------------------ source lines
\* A source text is a sequence of lines. The lines of the model:
\*   "ws"             a blank line
\*   "stmt"           x = 1
\*   "stmt2"          y = 2
\*   "rec"            def f(n): return f(n-1)
\*   "loop"           for i in y: pass
\*   "import_os"      import os
\*   "import_os_path" import os.path
\*   "from_os"        from os import path
\*   "from_os_path"   from os.path import join
\*   "call_eval"      eval('1')
\*   "deep"           x = -----...1   (five thousand unary minus signs)
\*   "bad"            def (
\*   "js_stmt"        const x = 1;
\*   "require_fs"     const fs = require('fs');
\*   "import_fs_from" import fs from 'fs';
\*   "import_fs"      import 'fs';
\*   "js_rec"         function f(n) { return f(n-1); }
\*   "js_loop"        for (let i of y) { x(); }
\*   "js_open"        function g() {
PythonLines ==
    {"stmt", "stmt2", "rec", "loop", "import_os", "import_os_path", "from_os",
     "from_os_path", "call_eval", "deep"}

JavaScriptLines ==
    {"js_stmt", "require_fs", "import_fs_from", "import_fs", "js_rec", "js_loop", "js_open"}

Lines == {"ws", "bad"} \cup PythonLines \cup JavaScriptLines

HasToken(code, tok) == \E i \in 1..Len(code) : code[i] = tok

\* the concatenation of a sequence of sequences
RECURSIVE Flatten(_)
Flatten(seqs) == IF seqs = <<>> THEN <<>> ELSE Head(seqs) \o Flatten(Tail(seqs))

\* the largest member of a finite set of naturals, 0 for the empty set
SetMax(S) == IF S = {} THEN 0 ELSE CHOOSE m \in S : \A n \in S : n <= m

\* the least member of a non-empty set of naturals
SetMin(S) == CHOOSE m \in S : \A n \in S : m <= n

Min(a, b) == IF a <= b THEN a ELSE b

\* a finding of an analyzer (SecurityIssue); line_number 0 stands for None,
\* and a message is the pair of its fixed text and the name it interpolates
SecurityIssue(severity, issue_type, text, named, line_number) ==
    [severity |-> severity, issue_type |-> issue_type,
     message |-> <<text, named>>, line_number |-> line_number]

\* ------------------------------------------------------------------ PythonAnalyzer
\* PythonAnalyzer.PROHIBITED_MODULES and PROHIBITED_BUILTINS
PY_PROHIBITED_MODULES ==
    {"os", "subprocess", "socket", "urllib", "urllib2", "urllib3", "requests", "http",
     "httplib", "ftplib", "telnetlib", "smtplib", "poplib", "imaplib", "__import__",
     "importlib", "sys", "ctypes", "multiprocessing", "threading", "asyncio"}

PY_PROHIBITED_BUILTINS == {"eval", "exec", "compile", "__import__", "open", "input"}

\* nodes of the abstract syntax tree, as _get_node_depth sees them: a node
\* with children of its own, a node without children, and a node whose only
\* child is one of the context and operator objects the parser shares
\* between all the nodes that use them
Inner == [own |-> TRUE, shared |-> {}]
Leaf == [own |-> FALSE, shared |-> {}]
Ctx(c) == [own |-> FALSE, shared |-> {c}]
BinOp == [own |-> TRUE, shared |-> {"Sub"}]
SharedObjects == {"Load", "Store", "Sub"}

\* ast.parse of one line: the names it imports (alias names of an import, the
\* module of a from-import), the names it calls, the For/While nodes, the
\* functions it defines, and its nodes level by level below the module; a
\* line that parses can still make the construction of the tree raise
NoTree == [syntax_ok |-> TRUE, raises |-> "none", imports |-> <<>>, calls |-> <<>>,
           loops |-> 0, defs |-> {}, tree |-> <<>>]

ImportTree(module) ==
    [NoTree EXCEPT !.imports = <<module>>, !.tree = << <<Inner>>, <<Leaf>> >>]

PyLine(tok) ==
    CASE tok = "ws" -> NoTree
      [] tok \in {"stmt", "stmt2"} ->
            [NoTree EXCEPT !.tree = << <<Inner>>, <<Ctx("Store"), Leaf>>, <<Leaf>> >>]
      [] tok = "rec" ->
            [NoTree EXCEPT !.calls = <<"f">>, !.defs = {"f"},
                !.tree = << <<Inner>>, <<Inner, Inner>>, <<Leaf, Inner>>,
                            <<Ctx("Load"), BinOp>>,
                            <<Leaf, Ctx("Load"), Leaf, Leaf>>, <<Leaf>> >>]
      [] tok = "loop" ->
            [NoTree EXCEPT !.loops = 1,
                !.tree = << <<Inner>>, <<Ctx("Store"), Ctx("Load"), Leaf>>, <<Leaf, Leaf>> >>]
      [] tok \in {"import_os", "from_os"} -> ImportTree("os")
      [] tok \in {"import_os_path", "from_os_path"} -> ImportTree("os.path")
      [] tok = "call_eval" ->
            [NoTree EXCEPT !.calls = <<"eval">>,
                !.tree = << <<Inner>>, <<Inner>>, <<Ctx("Load"), Leaf>>, <<Leaf>> >>]
      [] tok = "deep" -> [NoTree EXCEPT !.raises = "RecursionError"]
      [] OTHER -> [NoTree EXCEPT !.syntax_ok = FALSE]

\* the deepest level of the line trees
MaxLevels == 6

\* ast.walk: the module node, then the nodes of the lines level by level
walk(code) ==
    LET level(k) ==
            Flatten([i \in 1..Len(code) |->
                IF k <= Len(PyLine(code[i]).tree) THEN PyLine(code[i]).tree[k] ELSE <<>>])
        module == IF \E i \in 1..Len(code) : PyLine(code[i]).tree # <<>> THEN Inner ELSE Leaf
    IN  <<module>> \o Flatten([k \in 1..MaxLevels |-> level(k)])

\* the greatest PythonAnalyzer._get_node_depth over the nodes: the depth of a
\* node is one more than the number of nodes walked before the first node
\* that has it as a child
py_max_depth(code) ==
    LET nodes == walk(code)
        holders(c) == { j \in 1..Len(nodes) : c \in nodes[j].shared }
    IN  SetMax({ j \in 1..Len(nodes) : nodes[j].own }
               \cup { SetMin(holders(c)) : c \in { x \in SharedObjects : holders(x) # {} } })

\* an estimate whose memory and CPU time are not capped
ResourceEstimate_uncapped(complexity, has_loops, has_recursion, max_depth) ==
    [estimated_memory_mb |-> 64 + complexity * 2,
     estimated_cpu_ms |->
        100 + complexity * 50 + (IF has_loops THEN 500 ELSE 0)
            + (IF has_recursion THEN 1000 ELSE 0),
     complexity_score |-> complexity,
     has_loops |-> has_loops,
     has_recursion |-> has_recursion,
     max_depth |-> max_depth]

\* the resource estimate from its counts; CPU time is in milliseconds
ResourceEstimate(complexity, has_loops, has_recursion, max_depth) ==
    [estimated_memory_mb |-> Min(64 + complexity * 2, 512),
     estimated_cpu_ms |->
        Min(100 + complexity * 50 + (IF has_loops THEN 500 ELSE 0)
                + (IF has_recursion THEN 1000 ELSE 0), 30000),
     complexity_score |-> complexity,
     has_loops |-> has_loops,
     has_recursion |-> has_recursion,
     max_depth |-> max_depth]

\* PythonAnalyzer._estimate_resources: every For/While adds 2, every call of a
\* name that a function definition walked earlier binds adds 5 (definitions
\* are statements of the module, so they are walked before every call)
py_estimate_resources(code) ==
    LET parsed == [i \in 1..Len(code) |-> PyLine(code[i])]
        function_names == UNION { parsed[i].defs : i \in 1..Len(code) }
        all_calls == Flatten([i \in 1..Len(code) |-> parsed[i].calls])
        recursive_calls == Len(SelectSeq(all_calls, LAMBDA n : n \in function_names))
        loops == Len(Flatten([i \in 1..Len(code) |->
                                [j \in 1..parsed[i].loops |-> "loop"]]))
    IN  ResourceEstimate(1 + 2 * loops + 5 * recursive_calls, loops > 0,
                         recursive_calls > 0, py_max_depth(code))

\* PythonAnalyzer._analyze_ast: import statements are walked before the calls
\* inside expression statements; names are compared whole
py_analyze_ast(code) ==
    LET parsed == [i \in 1..Len(code) |-> PyLine(code[i])]
        imports == Flatten([i \in 1..Len(code) |->
            [j \in 1..Len(SelectSeq(parsed[i].imports, LAMBDA m : m \in PY_PROHIBITED_MODULES)) |->
                SecurityIssue("critical", "prohibited_import", "Prohibited module import",
                    SelectSeq(parsed[i].imports, LAMBDA m : m \in PY_PROHIBITED_MODULES)[j], i)]])
        builtins == Flatten([i \in 1..Len(code) |->
            [j \in 1..Len(SelectSeq(parsed[i].calls, LAMBDA n : n \in PY_PROHIBITED_BUILTINS)) |->
                SecurityIssue("critical", "prohibited_builtin", "Prohibited built-in function",
                    SelectSeq(parsed[i].calls, LAMBDA n : n \in PY_PROHIBITED_BUILTINS)[j], i)]])
    IN  imports \o builtins

\* what the Bandit subprocess does during a call: it runs and reports
\* nothing unless the environment of the call names another outcome
BanditOutcomes ==
    {"bandit_timeout", "bandit_missing", "bandit_failed", "bandit_low", "bandit_high"}

\* a scan whose findings of high severity are recorded as critical and whose
\* failures are recorded as they are
run_bandit_scan_critical(F) ==
    IF "bandit_timeout" \in F THEN [warnings |-> <<"Bandit scan timed out">>, issues |-> <<>>]
    ELSE IF "bandit_missing" \in F
    THEN [warnings |-> <<"Bandit not available for security scanning">>, issues |-> <<>>]
    ELSE IF "bandit_failed" \in F THEN [warnings |-> <<"Bandit scan failed">>, issues |-> <<>>]
    ELSE IF "bandit_low" \in F
    THEN [warnings |-> <<>>, issues |-> <<SecurityIssue("low", "B101", "issue_text", "", 1)>>]
    ELSE IF "bandit_high" \in F
    THEN [warnings |-> <<>>, issues |-> <<SecurityIssue("critical", "B602", "issue_text", "", 1)>>]
    ELSE [warnings |-> <<>>, issues |-> <<>>]

\* PythonAnalyzer._run_bandit_scan: findings of severity low, medium or high,
\* or one warning when the scan cannot be run
run_bandit_scan(F) ==
    IF "bandit_timeout" \in F THEN [warnings |-> <<"Bandit scan timed out">>, issues |-> <<>>]
    ELSE IF "bandit_missing" \in F
    THEN [warnings |-> <<"Bandit not available for security scanning">>, issues |-> <<>>]
    ELSE IF "bandit_failed" \in F THEN [warnings |-> <<"Bandit scan failed">>, issues |-> <<>>]
    ELSE IF "bandit_low" \in F
    THEN [warnings |-> <<>>, issues |-> <<SecurityIssue("low", "B101", "issue_text", "", 1)>>]
    ELSE IF "bandit_high" \in F
    THEN [warnings |-> <<>>, issues |-> <<SecurityIssue("high", "B602", "issue_text", "", 1)>>]
    ELSE [warnings |-> <<>>, issues |-> <<>>]

\* the digest the analyzers put in their result: SHA-256 of the text alone
sha256_of_code(code) == <<"", code>>

\* a result without findings or errors, of the given source
ValidationResult(code, language) ==
    [kind |-> "ValidationResult", is_valid |-> TRUE, language |-> language,
     code_hash |-> sha256_of_code(code), errors |-> <<>>, warnings |-> <<>>,
     security_issues |-> <<>>, resource_estimate |-> NoneValue,
     validation_timestamp |-> Missing]

has_critical_issues(security_issues) ==
    \E i \in 1..Len(security_issues) : security_issues[i].severity = "critical"

\* a result that is valid whenever there is no error, whatever the findings
Analysed_errors_only(code, language, errors, warnings, security_issues, resource_estimate) ==
    [ValidationResult(code, language) EXCEPT
        !.is_valid = errors = <<>>,
        !.errors = errors,
        !.warnings = warnings,
        !.security_issues = security_issues,
        !.resource_estimate = resource_estimate]

\* the result an analyzer builds from what its steps collected: valid when
\* there is no error and no critical finding
Analysed(code, language, errors, warnings, security_issues, resource_estimate) ==
    [ValidationResult(code, language) EXCEPT
        !.is_valid = errors = <<>> /\ ~has_critical_issues(security_issues),
        !.errors = errors,
        !.warnings = warnings,
        !.security_issues = security_issues,
        !.resource_estimate = resource_estimate]

\* an exception that leaves analyze instead of a result
Unhandled(exc) == [kind |-> "raised", exc |-> exc]

\* PythonAnalyzer.analyze: a source that does not parse gets the syntax error
\* and nothing else; an exception of ast.parse other than SyntaxError is not
\* handled (the parser reports a syntax error anywhere in the text before it
\* constructs the tree)
py_analyze(code, F) ==
    LET bad_lines == { i \in 1..Len(code) : ~PyLine(code[i]).syntax_ok }
        raising == { i \in 1..Len(code) : PyLine(code[i]).raises # "none" }
    IN  IF bad_lines # {}
        THEN [ValidationResult(code, "python") EXCEPT
                !.is_valid = FALSE,
                !.errors = << <<"Syntax error at line", SetMin(bad_lines)>> >>]
        ELSE IF raising # {}
        THEN Unhandled(PyLine(code[SetMin(raising)]).raises)
        ELSE Analysed(code, "python", <<>>, run_bandit_scan(F).warnings,
                      py_analyze_ast(code) \o run_bandit_scan(F).issues,
                      py_estimate_resources(code))

\* ------------------------------------------------------------------ JavaScriptAnalyzer
\* JavaScriptAnalyzer.PROHIBITED_MODULES
JS_PROHIBITED_MODULES ==
    {"fs", "child_process", "net", "http", "https", "dgram", "dns", "tls", "crypto",
     "os", "process", "cluster", "worker_threads", "vm"}

\* JavaScriptAnalyzer.DANGEROUS_PATTERNS (the messages, in list order) and
\* PROHIBITED_GLOBALS (in the order the set is iterated)
JS_DANGEROUS_PATTERNS ==
    <<"eval() usage detected", "Function constructor usage detected",
      "setTimeout with string argument", "setInterval with string argument",
      "Prototype pollution risk", "Constructor access detected">>

JS_PROHIBITED_GLOBALS ==
    <<"eval", "Function", "require", "import", "XMLHttpRequest", "fetch", "WebSocket">>

FunctionNames == {"f", "g"}

\* what the regular expressions of the analyzer find in one line: the
\* brackets it opens and closes, the dangerous patterns and the globals it
\* matches, the modules of its require(...) and import ... from, the kinds of
\* loop, the functions it defines and the occurrences of "name("
NoMatch ==
    [open_braces |-> 0, close_braces |-> 0, parens |-> 0, dangerous |-> {},
     globals |-> {}, requires |-> <<>>, imports_from |-> <<>>, loop_kinds |-> {},
     defs |-> {}, occurrences |-> [n \in FunctionNames |-> 0]]

JsLine(tok) ==
    CASE tok = "rec" -> [NoMatch EXCEPT !.occurrences["f"] = 2]
      [] tok \in {"import_os", "import_os_path", "from_os", "from_os_path", "import_fs"} ->
            [NoMatch EXCEPT !.globals = {"import"}]
      [] tok = "call_eval" ->
            [NoMatch EXCEPT !.dangerous = {"eval() usage detected"}, !.globals = {"eval"}]
      [] tok = "bad" -> [NoMatch EXCEPT !.parens = 1]
      [] tok = "require_fs" ->
            [NoMatch EXCEPT !.globals = {"require"}, !.requires = <<"fs">>]
      [] tok = "import_fs_from" ->
            [NoMatch EXCEPT !.globals = {"import"}, !.imports_from = <<"fs">>]
      [] tok = "js_rec" ->
            [NoMatch EXCEPT !.open_braces = 1, !.close_braces = 1, !.defs = {"f"},
                            !.occurrences["f"] = 2]
      [] tok = "js_loop" ->
            [NoMatch EXCEPT !.open_braces = 1, !.close_braces = 1, !.loop_kinds = {"for"}]
      [] tok = "js_open" ->
            [NoMatch EXCEPT !.open_braces = 1, !.defs = {"g"}, !.occurrences["g"] = 1]
      [] OTHER -> NoMatch

RECURSIVE SumSeq(_)
SumSeq(s) == IF s = <<>> THEN 0 ELSE Head(s) + SumSeq(Tail(s))

\* JavaScriptAnalyzer._validate_syntax: brackets must balance over the text
js_validate_syntax(code) ==
    LET brace_count == SumSeq([i \in 1..Len(code) |->
                            JsLine(code[i]).open_braces - JsLine(code[i]).close_braces])
        paren_count == SumSeq([i \in 1..Len(code) |-> JsLine(code[i]).parens])
    IN  (IF brace_count # 0 THEN << <<"Unbalanced braces", brace_count>> >> ELSE <<>>)
        \o (IF paren_count # 0 THEN << <<"Unbalanced parentheses", paren_count>> >> ELSE <<>>)

\* JavaScriptAnalyzer._analyze_security_patterns: pattern by pattern, then
\* global by global, each over the lines in order
js_analyze_security_patterns(code) ==
    LET lines_with(in_line(_)) ==
            SelectSeq([i \in 1..Len(code) |-> i], LAMBDA i : in_line(JsLine(code[i])))
        of_pattern(p) ==
            LET at == lines_with(LAMBDA l : JS_DANGEROUS_PATTERNS[p] \in l.dangerous)
            IN  [j \in 1..Len(at) |->
                    SecurityIssue("critical", "dangerous_pattern", JS_DANGEROUS_PATTERNS[p],
                                  "", at[j])]
        of_global(g) ==
            LET at == lines_with(LAMBDA l : JS_PROHIBITED_GLOBALS[g] \in l.globals)
            IN  [j \in 1..Len(at) |->
                    SecurityIssue("critical", "prohibited_global", "Prohibited global usage",
                                  JS_PROHIBITED_GLOBALS[g], at[j])]
    IN  Flatten([p \in 1..Len(JS_DANGEROUS_PATTERNS) |-> of_pattern(p)])
        \o Flatten([g \in 1..Len(JS_PROHIBITED_GLOBALS) |-> of_global(g)])

\* JavaScriptAnalyzer._analyze_imports: line by line, the require(...) calls
\* and then the import ... from statements that name a prohibited module
js_analyze_imports(code) ==
    LET named(i) == SelectSeq(JsLine(code[i]).requires \o JsLine(code[i]).imports_from,
                              LAMBDA m : m \in JS_PROHIBITED_MODULES)
    IN  Flatten([i \in 1..Len(code) |->
            [j \in 1..Len(named(i)) |->
                SecurityIssue("critical", "prohibited_import", "Prohibited module import",
                              named(i)[j], i)]])

\* JavaScriptAnalyzer._estimate_resources: 2 for every kind of loop that
\* occurs, 5 for every defined function whose name is followed by "(" more
\* than once, depth by counting braces line by line
js_estimate_resources(code) ==
    LET parsed == [i \in 1..Len(code) |-> JsLine(code[i])]
        loop_kinds == UNION { parsed[i].loop_kinds : i \in 1..Len(code) }
        function_names == UNION { parsed[i].defs : i \in 1..Len(code) }
        count(n) == SumSeq([i \in 1..Len(code) |-> parsed[i].occurrences[n]])
        recursive == { n \in function_names : count(n) > 1 }
        depth_after(k) == SumSeq([i \in 1..k |-> parsed[i].open_braces - parsed[i].close_braces])
    IN  ResourceEstimate(1 + 2 * Cardinality(loop_kinds) + 5 * Cardinality(recursive),
                         loop_kinds # {}, recursive # {},
                         SetMax({ k \in 0..Len(code) : \E i \in 1..Len(code) : depth_after(i) = k }))

\* JavaScriptAnalyzer.analyze
js_analyze(code, language) ==
    Analysed(code, language, js_validate_syntax(code), <<>>,
             js_analyze_security_patterns(code) \o js_analyze_imports(code),
             js_estimate_resources(code))

\* ------------------------------------------------------------------ CodeValidator
\* CodeValidator.validate_safe: validate stamps the result of a source that
\* is not blank and is valid; when validate raises, the source is analysed
\* again and that result is returned (by the Python analyzer for "python",
\* by the JS/TS analyzer for every other language)
Stamped(code, result) ==
    IF result.kind = "raised" THEN result
    ELSE IF Strip(code) # <<>> /\ result.is_valid
    THEN [result EXCEPT !.validation_timestamp = "utcnow"]
    ELSE result

validate_safe(code, language, F) ==
    Stamped(code, IF language = "python" THEN py_analyze(code, F)
                  ELSE js_analyze(code, language))

\* ------------------------------------------------------------------ security policy
\* ResourceLimits with its defaults, as SecurityPolicyManager.get_default_policy
\* builds it; CPU time is in milliseconds
DefaultLimits ==
    [max_memory_mb |-> 512, max_cpu_ms |-> 30000, max_complexity |-> 50,
     max_nesting_depth |-> 10, allow_loops |-> TRUE, allow_recursion |-> FALSE]

\* SecurityPolicyManager.get_default_policy
DefaultPolicy == [policy_id |-> "default-v1", resource_limits |-> DefaultLimits]

\* SecurityPolicyManager.get_permissive_policy
PermissivePolicy ==
    [policy_id |-> "permissive-v1",
     resource_limits |-> [DefaultLimits EXCEPT !.allow_recursion = TRUE, !.max_complexity = 100]]

Policies == {DefaultPolicy, PermissivePolicy}

\* a PolicyViolation; line_number 0 stands for None
PolicyViolation(violation_type, rule_id, severity, message, line_number) ==
    [violation_type |-> violation_type, rule_id |-> rule_id, severity |-> severity,
     message |-> message, line_number |-> line_number]

ResourceViolation(severity, text) ==
    PolicyViolation("resource_limit", "RES001", severity, <<text, "">>, 0)

\* an evaluator that checks no resource limit
check_resource_limits_skipped(p, resource_estimate) == <<>>

\* PolicyEvaluator._check_resource_limits
check_resource_limits(p, resource_estimate) ==
    LET limits == p.resource_limits
    IN  (IF resource_estimate.estimated_memory_mb > limits.max_memory_mb
         THEN <<ResourceViolation("high", "Estimated memory usage exceeds limit")>> ELSE <<>>)
        \o (IF resource_estimate.estimated_cpu_ms > limits.max_cpu_ms
            THEN <<ResourceViolation("high", "Estimated CPU time exceeds limit")>> ELSE <<>>)
        \o (IF resource_estimate.complexity_score > limits.max_complexity
            THEN <<ResourceViolation("medium", "Code complexity exceeds limit")>> ELSE <<>>)
        \o (IF resource_estimate.max_depth > limits.max_nesting_depth
            THEN <<ResourceViolation("medium", "Nesting depth exceeds limit")>> ELSE <<>>)
        \o (IF resource_estimate.has_recursion /\ ~limits.allow_recursion
            THEN <<ResourceViolation("high", "Recursion is not allowed by security policy")>>
            ELSE <<>>)

\* PolicyEvaluator._map_issue_to_violation_type
map_issue_to_violation_type(issue_type) ==
    IF issue_type = "prohibited_import" THEN "prohibited_import" ELSE "dangerous_function"

\* PolicyEvaluator._get_rule_id_for_type
get_rule_id_for_type(violation_type) ==
    CASE violation_type = "file_system_access" -> "FS001"
      [] violation_type = "network_access" -> "NET001"
      [] violation_type = "system_call" -> "SYS001"
      [] violation_type = "dangerous_function" -> "FUNC001"
      [] violation_type = "resource_limit" -> "RES001"
      [] violation_type = "prohibited_import" -> "IMP001"
      [] OTHER -> "UNKNOWN"

\* an evaluator that lists the violations of the findings before those of
\* the resource limits
evaluate_findings_first(p, result) ==
    [i \in 1..Len(result.security_issues) |->
            LET issue == result.security_issues[i]
                violation_type == map_issue_to_violation_type(issue.issue_type)
            IN  PolicyViolation(violation_type, get_rule_id_for_type(violation_type),
                                issue.severity, issue.message, issue.line_number)]
    \o (IF result.resource_estimate # NoneValue
        THEN check_resource_limits(p, result.resource_estimate) ELSE <<>>)

\* PolicyEvaluator.evaluate: the resource-limit violations of a result that
\* has an estimate, then one violation per finding, with the finding's severity
evaluate(p, result) ==
    (IF result.resource_estimate # NoneValue
     THEN check_resource_limits(p, result.resource_estimate) ELSE <<>>)
    \o [i \in 1..Len(result.security_issues) |->
            LET issue == result.security_issues[i]
                violation_type == map_issue_to_violation_type(issue.issue_type)
            IN  PolicyViolation(violation_type, get_rule_id_for_type(violation_type),
                                issue.severity, issue.message, issue.line_number)]

\* PolicyEvaluator.has_critical_violations
has_critical_violations(violations) ==
    \E i \in 1..Len(violations) : violations[i].severity = "critical"

\* ------------------------------------------------------------------ ArtifactStorage
\* ArtifactStorage.create_artifact_bundle (execution metadata, dependencies
\* and created_at are carried unchanged and are left out)
create_artifact_bundle(code, language, validation_result) ==
    [kind |-> "CachedToolArtifact",
     code_hash |-> compute_code_hash(code, language),
     validated_code |-> code,
     validation_result |-> validation_result,
     usage_count |-> 0,
     language |-> language]

\* ArtifactStorage.store_artifact: the metadata JSON, then the raw code
store_artifact(s3, artifact, F) ==
    LET key == get_artifact_key(artifact.code_hash)
        code_key == get_code_key(artifact.code_hash, artifact.language)
        s1 == S3Put(s3, key, artifact)
        s2 == S3Put(s1, code_key, [kind |-> "code", body |-> artifact.validated_code])
    IN  IF "s3_put_json" \in F THEN Raised("StorageError", "store_artifact", s3)
        ELSE IF "s3_put_code" \in F THEN Raised("StorageError", "store_artifact", s1)
        ELSE Returned(key, s2)

\* ArtifactStorage.retrieve_artifact
retrieve_artifact(s3, code_hash, F) ==
    LET key == get_artifact_key(code_hash)
    IN  IF "s3_get" \in F THEN Raised("StorageError", "retrieve_artifact", s3)
        ELSE IF key \in DOMAIN s3 THEN Returned(s3[key], s3)
        ELSE Returned(NoneValue, s3)

\* ArtifactStorage.artifact_exists
artifact_exists(s3, code_hash, F) ==
    IF "s3_head" \in F THEN Raised("StorageError", "artifact_exists", s3)
    ELSE Returned(get_artifact_key(code_hash) \in DOMAIN s3, s3)

\* an update_usage_count that writes the artifact back as it read it
update_usage_count_without_increment(s3, code_hash, F) ==
    LET got == retrieve_artifact(s3, code_hash, F)
    IN  IF got.exc # "none" THEN Raised("StorageError", "update_usage_count", s3)
        ELSE IF got.value = NoneValue THEN Raised("StorageError", "update_usage_count", s3)
        ELSE LET put == store_artifact(s3, got.value, F)
             IN  IF put.exc # "none" THEN Raised("StorageError", "update_usage_count", put.s3)
                 ELSE Returned(NoneValue, put.s3)

\* ArtifactStorage.update_usage_count: read the artifact, add one, write it back
update_usage_count(s3, code_hash, F) ==
    LET got == retrieve_artifact(s3, code_hash, F)
    IN  IF got.exc # "none" THEN Raised("StorageError", "update_usage_count", s3)
        ELSE IF got.value = NoneValue THEN Raised("StorageError", "update_usage_count", s3)
        ELSE LET bumped == [got.value EXCEPT !.usage_count = @ + 1]
                 put == store_artifact(s3, bumped, F)
             IN  IF put.exc # "none" THEN Raised("StorageError", "update_usage_count", put.s3)
                 ELSE Returned(NoneValue, put.s3)

\* ArtifactStorage.delete_artifact: the metadata JSON, then the raw code
delete_artifact(s3, code_hash, language, F) ==
    LET s1 == S3Delete(s3, get_artifact_key(code_hash))
        s2 == S3Delete(s1, get_code_key(code_hash, language))
    IN  IF "s3_delete_json" \in F THEN Raised("StorageError", "delete_artifact", s3)
        ELSE IF "s3_delete_code" \in F THEN Raised("StorageError", "delete_artifact", s1)
        ELSE Returned(NoneValue, s2)

\* ------------------------------------------------------------------ ValidationCache
\* ValidationCache._convert_to_simple_result: findings become their messages
convert_to_simple_result(detailed) ==
    [kind |-> "SimpleValidationResult",
     is_valid |-> detailed.is_valid,
     errors |-> detailed.errors,
     warnings |-> detailed.warnings,
     security_issues |->
        [i \in 1..Len(detailed.security_issues) |-> detailed.security_issues[i].message]]

\* ValidationCache._convert_to_detailed_result: messages become findings of
\* severity high and type cached_issue without a line; the hash is the cache
\* key; there is no resource estimate and no timestamp
convert_to_detailed_result(simple, code_hash, language) ==
    [kind |-> "ValidationResult",
     is_valid |-> simple.is_valid,
     language |-> language,
     code_hash |-> code_hash,
     errors |-> simple.errors,
     warnings |-> simple.warnings,
     security_issues |->
        [i \in 1..Len(simple.security_issues) |->
            [severity |-> "high", issue_type |-> "cached_issue",
             message |-> simple.security_issues[i], line_number |-> 0]],
     resource_estimate |-> NoneValue,
     validation_timestamp |-> Missing]

\* a cache that never has the source
get_cached_validation_never(s3, code, language, F) == NoneValue

\* ValidationCache.get_cached_validation: any failure reads as "not cached"
get_cached_validation(s3, code, language, F) ==
    LET code_hash == compute_code_hash(code, language)
        there == artifact_exists(s3, code_hash, F)
        got == retrieve_artifact(s3, code_hash, F)
    IN  IF there.exc # "none" THEN NoneValue
        ELSE IF ~there.value THEN NoneValue
        ELSE IF got.exc # "none" THEN NoneValue
        ELSE IF got.value = NoneValue THEN NoneValue
        ELSE convert_to_detailed_result(got.value.validation_result, code_hash, language)

\* ValidationCache._log_validation_audit: whether the audit entry was
\* written; a failure of the write is printed and nothing is raised (the
\* entries, under keys of their own, are not kept in the bucket of the model)
log_validation_audit(F) == "s3_put_audit" \notin F

\* ValidationCache.cache_validation_result: the artifact is stored, then the
\* audit entry is written; "audited" observes whether it was
cache_validation_result(s3, code, language, validation_result, F) ==
    LET artifact ==
            create_artifact_bundle(code, language, convert_to_simple_result(validation_result))
        put == store_artifact(s3, artifact, F)
    IN  IF put.exc # "none"
        THEN Raised("StorageError", "cache_validation_result", put.s3) @@ [audited |-> FALSE]
        ELSE Returned(compute_code_hash(code, language), put.s3)
                 @@ [audited |-> log_validation_audit(F)]

\* ------------------------------------------------------------------ ValidationService
\* the pair validate_code returns
ResultPair(result, violations) ==
    [kind |-> "tuple", result |-> result, violations |-> violations]

\* what a ValidationError carries
ValidationErrorDetails(errors, warnings, security_issues) ==
    [kind |-> "ValidationError", errors |-> errors, warnings |-> warnings,
     security_issues |-> security_issues]

\* what a call of the service returns or raises and the bucket it leaves,
\* with two observations: "analysed", whether the analyzer ran and the source
\* was accepted, and "analyses", how often an analyzer ran
Observed(r, analysed, analyses) == r @@ [analysed |-> analysed, analyses |-> analyses]

\* how often CodeValidator.validate_safe analysed to get its result: once,
\* and once more when validate raised (a blank source raises before its
\* analysis)
validate_safe_analyses(code, result) ==
    IF Strip(code) = <<>> THEN 1
    ELSE IF result.is_valid THEN 1
    ELSE 2

\* a validation service that accepts every source without analysing it
validate_code_unchecked(s3, code, language, use_cache, F) ==
    Observed(Returned(ValidationResult(code, language), s3), FALSE, 0)

\* ValidationService.validate_code, step 1 on a hit: the cached result under
\* the current policy, and a best-effort increment of the usage count
validate_code_hit(p, s3, code, language, F, cached_result) ==
    Observed(Returned(ResultPair(cached_result, evaluate(p, cached_result)),
                      update_usage_count(s3, compute_code_hash(code, language), F).s3),
             FALSE, 0)

\* steps 4 and 5 without the check: every analysed source is returned and cached
validate_code_decide_lenient(s3, code, language, F, validation_result, violations) ==
    Observed(Returned(ResultPair(validation_result, violations),
                      cache_validation_result(s3, code, language, validation_result, F).s3),
             TRUE, validate_safe_analyses(code, validation_result))

\* steps 4 and 5 of a service that lets a failing cache write fail the call
validate_code_decide_failing(s3, code, language, F, validation_result, violations) ==
    IF has_critical_violations(violations) \/ ~validation_result.is_valid
    THEN Observed(Raised("ValidationError", "validation", s3), FALSE,
                  validate_safe_analyses(code, validation_result))
    ELSE IF cache_validation_result(s3, code, language, validation_result, F).exc # "none"
    THEN Observed(Raised("StorageError", "cache_validation_result",
                         cache_validation_result(s3, code, language, validation_result, F).s3),
                  TRUE, validate_safe_analyses(code, validation_result))
    ELSE Observed(Returned(ResultPair(validation_result, violations),
                           cache_validation_result(s3, code, language, validation_result, F).s3),
                  TRUE, validate_safe_analyses(code, validation_result))

\* ValidationService.validate_code, steps 4 and 5: raise on a critical
\* violation or an invalid result, else a best-effort cache write
validate_code_decide(s3, code, language, F, validation_result, violations) ==
    IF has_critical_violations(violations) \/ ~validation_result.is_valid
    THEN Observed([Raised("ValidationError", "validation", s3) EXCEPT
                     !.value = ValidationErrorDetails(
                                 validation_result.errors, validation_result.warnings,
                                 [i \in 1..Len(SelectSeq(violations,
                                                         LAMBDA v : v.severity = "critical")) |->
                                     SelectSeq(violations,
                                               LAMBDA v : v.severity = "critical")[i].message])],
                  FALSE, validate_safe_analyses(code, validation_result))
    ELSE Observed(Returned(ResultPair(validation_result, violations),
                           cache_validation_result(s3, code, language, validation_result, F).s3),
                  TRUE, validate_safe_analyses(code, validation_result))

\* ValidationService.validate_code, steps 2 and 3: analyse, then evaluate;
\* an exception of the analyzer other than ValidationError leaves the call
validate_code_miss(p, s3, code, language, F, validation_result) ==
    IF validation_result.kind = "raised"
    THEN Observed(Raised(validation_result.exc, "analysis", s3), FALSE, 1)
    ELSE validate_code_decide(s3, code, language, F, validation_result,
                              evaluate(p, validation_result))

\* ValidationService.validate_code of a service whose policy is p, with
\* caching enabled (the constructor's default)
validate_code_lookup(p, s3, code, language, F, cached_result) ==
    IF cached_result # NoneValue
    THEN validate_code_hit(p, s3, code, language, F, cached_result)
    ELSE validate_code_miss(p, s3, code, language, F, validate_safe(code, language, F))

validate_code_under(p, s3, code, language, use_cache, F) ==
    validate_code_lookup(p, s3, code, language, F,
        IF use_cache THEN get_cached_validation(s3, code, language, F) ELSE NoneValue)

\* ValidationService.validate_code: under the policy the service holds
validate_code(s3, code, language, use_cache, F) ==
    validate_code_under(policy, s3, code, language, use_cache, F)

\* validate_code_safe's handler of ValidationError: the pair of a further
\* analysis and its evaluation
validate_code_recover(r, code, validation_result) ==
    IF r.exc = "ValidationError"
    THEN Observed(Returned(ResultPair(validation_result, evaluate(policy, validation_result)),
                           r.s3),
                  FALSE, r.analyses + validate_safe_analyses(code, validation_result))
    ELSE r

\* ValidationService.validate_code_safe
validate_code_safe(s3, code, language, use_cache, F) ==
    validate_code_recover(validate_code(s3, code, language, use_cache, F), code,
                          validate_safe(code, language, F))

\* ValidationService.update_policy: the new policy and an evaluator for it
\* (the audit copy of the policy is best effort and is not kept in the
\* bucket of the model)
update_policy(new_policy) == new_policy

\* a policy update that deletes every cached artifact
invalidate_all_for_policy_update_purging(s3) ==
    [k \in { k \in DOMAIN s3 : s3[k].kind # "CachedToolArtifact" } |-> s3[k]]

\* ValidationCache.invalidate_all_for_policy_update, which update_policy
\* calls: a placeholder that logs the update, deletes nothing and returns 0
invalidate_all_for_policy_update(s3) == s3

\* ValidationCache.invalidate_cache: the artifact is deleted, then the audit
\* entry is written
invalidate_cache(s3, code_hash, language, F) ==
    LET deleted == delete_artifact(s3, code_hash, language, F)
    IN  IF deleted.exc # "none" THEN Raised("StorageError", "invalidate_cache", deleted.s3)
        ELSE Returned(NoneValue, deleted.s3)

\* ValidationService.invalidate_cache_for_code: a failure is only printed
invalidate_cache_for_code(s3, code, language, F) ==
    Returned(NoneValue, invalidate_cache(s3, compute_code_hash(code, language), language, F).s3)

\* ------------------------------------------------------------------ ToolRepository
\* a new record whose storage key is the key of no content hash
create_new_without_key(tool_id, agent_id, d, code_artifact_s3_key, code_hash) ==
    [tool_id |-> tool_id, agent_id |-> agent_id, name |-> d.name, version |-> d.version,
     status |-> "active", code_artifact_s3_key |-> get_artifact_key(NoHash),
     code_hash |-> code_hash,
     language |-> d.language]

\* ToolRecord.create_new: status ACTIVE
create_new(tool_id, agent_id, d, code_artifact_s3_key, code_hash) ==
    [tool_id |-> tool_id,
     agent_id |-> agent_id,
     name |-> d.name,
     version |-> d.version,
     status |-> "active",
     code_artifact_s3_key |-> code_artifact_s3_key,
     code_hash |-> code_hash,
     language |-> d.language]

\* what a call on the tool index returns or raises, and the index it leaves
DbReturned(v, index) == [exc |-> "none", value |-> v, index |-> index]

DbRaised(why, index) == [exc |-> "StorageError", reason |-> why, value |-> NoneValue, index |-> index]

\* the item UpdateItem starts from when the key is not in the table
EmptyItem(tool_id) ==
    [tool_id |-> tool_id, agent_id |-> Missing, name |-> Missing, version |-> Missing,
     status |-> Missing, code_artifact_s3_key |-> Missing, code_hash |-> NoHash,
     language |-> Missing]

ItemOrEmpty(index, tool_id) ==
    IF tool_id \in DOMAIN index THEN index[tool_id] ELSE EmptyItem(tool_id)

\* ToolRepository.create: put_item of the whole record
repo_create(index, tool_record, F) ==
    IF "db_put" \in F THEN DbRaised("create", index)
    ELSE DbReturned(tool_record,
            [t \in DOMAIN index \cup {tool_record.tool_id} |->
                IF t = tool_record.tool_id THEN tool_record ELSE index[t]])

\* a read that finds a blank item under every id
repo_get_by_id_blank(index, tool_id, F) == DbReturned(ItemOrEmpty(index, tool_id), index)

\* ToolRepository.get_by_id
repo_get_by_id(index, tool_id, F) ==
    IF "db_get" \in F THEN DbRaised("get_by_id", index)
    ELSE IF tool_id \in DOMAIN index THEN DbReturned(index[tool_id], index)
    ELSE DbReturned(NoneValue, index)

\* an update that also sets the status to ACTIVE
repo_update_activating(index, tool_record, F) ==
    IF "db_update" \in F THEN DbRaised("update", index)
    ELSE DbReturned(tool_record,
            [t \in DOMAIN index \cup {tool_record.tool_id} |->
                IF t = tool_record.tool_id
                THEN [ItemOrEmpty(index, t) EXCEPT
                        !.name = tool_record.name,
                        !.version = tool_record.version,
                        !.status = "active",
                        !.code_artifact_s3_key = tool_record.code_artifact_s3_key]
                ELSE index[t]])

\* ToolRepository.update: SET name, description, version, status,
\* codeArtifactS3Key, schema, updatedAt, metadata; codeHash and language are
\* not in the update expression
repo_update(index, tool_record, F) ==
    IF "db_update" \in F THEN DbRaised("update", index)
    ELSE DbReturned(tool_record,
            [t \in DOMAIN index \cup {tool_record.tool_id} |->
                IF t = tool_record.tool_id
                THEN [ItemOrEmpty(index, t) EXCEPT
                        !.name = tool_record.name,
                        !.version = tool_record.version,
                        !.status = tool_record.status,
                        !.code_artifact_s3_key = tool_record.code_artifact_s3_key]
                ELSE index[t]])

\* a delete that reports success and deletes nothing
repo_delete_nothing(index, tool_id, F) == DbReturned(NoneValue, index)

\* ToolRepository.delete
repo_delete(index, tool_id, F) ==
    IF "db_delete" \in F THEN DbRaised("delete", index)
    ELSE DbReturned(NoneValue, [t \in DOMAIN index \ {tool_id} |-> index[t]])

\* a codeHash query that never finds an item
find_by_code_hash_nothing(index, code_hash) == {NoneValue}

\* ToolRepository.find_by_code_hash: a query on the codeHash index with
\* Limit 1; the store picks which matching item it returns
find_by_code_hash_results(index, code_hash) ==
    LET matching == { t \in DOMAIN index : index[t].code_hash = code_hash }
    IN  IF matching = {} THEN {NoneValue} ELSE { index[t] : t \in matching }

\* a status update that replaces the whole item
repo_update_status_replacing(index, tool_id, status, F) ==
    IF "db_update" \in F THEN DbRaised("update_status", index)
    ELSE DbReturned(NoneValue,
            [t \in DOMAIN index \cup {tool_id} |->
                IF t = tool_id THEN [EmptyItem(t) EXCEPT !.status = status]
                ELSE index[t]])

\* ToolRepository.update_status: SET status, updatedAt
repo_update_status(index, tool_id, status, F) ==
    IF "db_update" \in F THEN DbRaised("update_status", index)
    ELSE DbReturned(NoneValue,
            [t \in DOMAIN index \cup {tool_id} |->
                IF t = tool_id THEN [ItemOrEmpty(index, t) EXCEPT !.status = status]
                ELSE index[t]])

\* ------------------------------------------------------------------ ToolLifecycleManager
\* what a lifecycle call returns or raises, and what it leaves behind:
\* the tool index, the bucket, the ids handed out, the hashes it had analysed
LcReturned(v, index, s3, nid, analysed) ==
    [exc |-> "none", reason |-> "ok", value |-> v,
     index |-> index, s3 |-> s3, next_id |-> nid, analysed |-> analysed]

LcRaised(e, why, index, s3, nid, analysed) ==
    [exc |-> e, reason |-> why, value |-> NoneValue,
     index |-> index, s3 |-> s3, next_id |-> nid, analysed |-> analysed]

\* "validation_result.is_valid" on what validate_code returned: a tuple has
\* no such attribute
getattr_is_valid(obj) ==
    IF obj.kind = "tuple" THEN [exc |-> "AttributeError", value |-> FALSE]
    ELSE [exc |-> "none", value |-> obj.is_valid]

\* an ownership check that lets every agent through
owned_by_anyone(tool_record, agent_id) == TRUE

\* the ownership check of update_tool and deregister_tool
owned_by(tool_record, agent_id) == tool_record.agent_id = agent_id

\* register_tool, steps 5 to 7, without the compensating delete
register_record_without_rollback(index, s3, nid, d, agent_id, code_hash, F, registry_ok, analysed) ==
    LET tool_record == create_new(nid, agent_id, d, get_artifact_key(code_hash), code_hash)
        created == repo_create(index, tool_record, F)
    IN  IF created.exc # "none"
        THEN LcRaised("StorageError", "create", index, s3, nid + 1, analysed)
        ELSE IF ~registry_ok
        THEN LcRaised("RegistrationError", "publish", created.index, s3, nid + 1, analysed)
                 @@ [delete_attempts |-> 0]
        ELSE LcReturned(tool_record, created.index, s3, nid + 1, analysed)

\* a register_tool whose compensating action deletes the artifact as well
register_record_purging(index, s3, nid, d, agent_id, code_hash, F, registry_ok, analysed) ==
    LET tool_record == create_new(nid, agent_id, d, get_artifact_key(code_hash), code_hash)
        created == repo_create(index, tool_record, F)
        rollback == repo_delete(created.index, nid, F)
    IN  IF created.exc # "none"
        THEN LcRaised("StorageError", "create", index, s3, nid + 1, analysed)
        ELSE IF ~registry_ok
        THEN LcRaised("RegistrationError", "publish", rollback.index,
                      delete_artifact(s3, code_hash, d.language, F).s3, nid + 1, analysed)
                 @@ [delete_attempts |-> 1]
        ELSE LcReturned(tool_record, created.index, s3, nid + 1, analysed)

\* the publish failure register_tool raises again after its compensating
\* action, with the number of deletes the action attempted
PublishFailure(index, s3, nid, analysed, delete_attempts) ==
    LcRaised("RegistrationError", "publish", index, s3, nid, analysed)
        @@ [delete_attempts |-> delete_attempts]

\* a register_tool that repeats a compensating delete that failed (the
\* repeated delete_item goes through)
register_record_retrying(index, s3, nid, d, agent_id, code_hash, F, registry_ok, analysed) ==
    LET tool_record == create_new(nid, agent_id, d, get_artifact_key(code_hash), code_hash)
        created == repo_create(index, tool_record, F)
        rollback == repo_delete(created.index, nid, F)
    IN  IF created.exc # "none"
        THEN LcRaised("StorageError", "create", index, s3, nid + 1, analysed)
        ELSE IF ~registry_ok
        THEN IF rollback.exc # "none"
             THEN PublishFailure(repo_delete(created.index, nid, {}).index, s3, nid + 1,
                                 analysed, 2)
             ELSE PublishFailure(rollback.index, s3, nid + 1, analysed, 1)
        ELSE LcReturned(tool_record, created.index, s3, nid + 1, analysed)

\* register_tool, steps 5 to 7: build the record, persist it, publish it,
\* and on a publish failure delete it again (one delete, whose failure is
\* only logged) and raise the publish failure again
register_record(index, s3, nid, d, agent_id, code_hash, F, registry_ok, analysed) ==
    LET tool_id == nid
        artifact_key == get_artifact_key(code_hash)
        tool_record == create_new(tool_id, agent_id, d, artifact_key, code_hash)
        created == repo_create(index, tool_record, F)
        rollback == repo_delete(created.index, tool_id, F)
    IN  IF created.exc # "none"
        THEN LcRaised("StorageError", "create", index, s3, nid + 1, analysed)
        ELSE IF ~registry_ok
        THEN PublishFailure(rollback.index, s3, nid + 1, analysed, 1)
        ELSE LcReturned(tool_record, created.index, s3, nid + 1, analysed)

\* ToolLifecycleManager.register_tool, step 4 after its call of the
\* validation service: what the service raised is raised on; what it returned
\* is asked for is_valid, and the artifact is created and stored
register_validated(index, nid, d, agent_id, code_hash, F, registry_ok, checked) ==
    LET analysed == IF checked.analysed THEN {code_hash} ELSE {}
        attr == getattr_is_valid(checked.value)
        stored == store_artifact(checked.s3,
                      create_artifact_bundle(d.code, d.language, checked.value), F)
    IN  IF checked.exc \in {"ValidationError", "RegistrationError", "StorageError"}
        THEN [LcRaised(checked.exc, checked.reason, index, checked.s3, nid, analysed)
                EXCEPT !.value = checked.value]
        ELSE IF checked.exc # "none"
        THEN LcRaised("RegistrationError", "unexpected", index, checked.s3, nid, analysed)
        ELSE IF attr.exc # "none"
        THEN LcRaised("RegistrationError", "result_attribute", index, checked.s3, nid, analysed)
        ELSE IF ~attr.value
        THEN LcRaised("ValidationError", "validation", index, checked.s3, nid, analysed)
        ELSE IF stored.exc # "none"
        THEN LcRaised("StorageError", stored.reason, index, stored.s3, nid, analysed)
        ELSE register_record(index, stored.s3, nid, d, agent_id, code_hash, F,
                             registry_ok, analysed)

\* ToolLifecycleManager.register_tool
register_tool(index, s3, nid, d, agent_id, skip_cache, F, registry_ok) ==
    LET structure_errors == validate_structure(d)
        code_hash == compute_code_hash(d.code, d.language)
        lookup == IF skip_cache THEN Returned(NoneValue, s3)
                  ELSE retrieve_artifact(s3, code_hash, F)
        bump == update_usage_count(s3, code_hash, F)
    IN  IF structure_errors # <<>>
        THEN LcRaised("ValidationError", "structure", index, s3, nid, {})
        ELSE IF lookup.exc # "none"
        THEN LcRaised("StorageError", lookup.reason, index, s3, nid, {})
        ELSE IF lookup.value = NoneValue
        THEN register_validated(index, nid, d, agent_id, code_hash, F, registry_ok,
                                validate_code(s3, d.code, d.language, TRUE, F))
        ELSE IF bump.exc # "none"
             THEN LcRaised("StorageError", bump.reason, index, bump.s3, nid, {})
             ELSE register_record(index, bump.s3, nid, d, agent_id, code_hash, F,
                                  registry_ok, {})

\* ToolLifecycleManager.update_tool, step 7: the record with the declared
\* fields of the definition and the artifact reference is written
update_record(index, nid, existing_tool, d, F, artifact_key, s3_now, seen) ==
    LET updated_tool == [existing_tool EXCEPT
                            !.name = d.name,
                            !.version = d.version,
                            !.code_artifact_s3_key = artifact_key,
                            !.code_hash = compute_code_hash(d.code, d.language),
                            !.language = d.language]
        written == repo_update(index, updated_tool, F)
    IN  IF written.exc # "none"
        THEN LcRaised("StorageError", "update", index, s3_now, nid, seen)
        ELSE LcReturned(updated_tool, written.index, s3_now, nid, seen)

\* ToolLifecycleManager.update_tool, step 5 after its call of the validation
\* service for changed code
update_validated(index, nid, existing_tool, d, F, checked) ==
    LET analysed == IF checked.analysed THEN {compute_code_hash(d.code, d.language)} ELSE {}
        attr == getattr_is_valid(checked.value)
        stored == store_artifact(checked.s3,
                      create_artifact_bundle(d.code, d.language, checked.value), F)
    IN  IF checked.exc \in {"ValidationError", "RegistrationError", "StorageError"}
        THEN [LcRaised(checked.exc, checked.reason, index, checked.s3, nid, analysed)
                EXCEPT !.value = checked.value]
        ELSE IF checked.exc # "none"
        THEN LcRaised("RegistrationError", "unexpected", index, checked.s3, nid, analysed)
        ELSE IF attr.exc # "none"
        THEN LcRaised("RegistrationError", "result_attribute", index, checked.s3, nid, analysed)
        ELSE IF ~attr.value
        THEN LcRaised("ValidationError", "validation", index, checked.s3, nid, analysed)
        ELSE IF stored.exc # "none"
        THEN LcRaised("StorageError", stored.reason, index, stored.s3, nid, analysed)
        ELSE update_record(index, nid, existing_tool, d, F, stored.value, stored.s3, analysed)

\* what a call of the AgentCore client raises: RegistrationError when the
\* registry fails
registry_call(registry_ok) == IF registry_ok THEN "none" ELSE "RegistrationError"

\* an update_tool that lets the failure of the metadata sync fail the update
after_sync_tool_metadata_strict(updated, exc) ==
    IF updated.exc = "none" /\ exc # "none"
    THEN LcRaised("RegistrationError", "sync", updated.index, updated.s3, updated.next_id,
                  updated.analysed)
    ELSE updated

\* ToolLifecycleManager.update_tool, step 6, reached when step 5 has written
\* the record: a RegistrationError of the metadata sync is only logged; any
\* other exception becomes the RegistrationError of the outer handler
after_sync_tool_metadata(updated, exc) ==
    IF updated.exc = "none" /\ exc \notin {"none", "RegistrationError"}
    THEN LcRaised("RegistrationError", "unexpected", updated.index, updated.s3,
                  updated.next_id, updated.analysed)
    ELSE updated

\* an update_tool that validates and stores the source whether or not its
\* content hash has changed
update_tool_record_revalidating(index, s3, nid, tool_id, d, agent_id, F) ==
    LET loaded == repo_get_by_id(index, tool_id, F)
        existing_tool == loaded.value
    IN  IF loaded.exc # "none"
        THEN LcRaised("StorageError", "get_by_id", index, s3, nid, {})
        ELSE IF existing_tool = NoneValue
        THEN LcRaised("RegistrationError", "not_found", index, s3, nid, {})
        ELSE IF ~owned_by(existing_tool, agent_id)
        THEN LcRaised("RegistrationError", "not_owner", index, s3, nid, {})
        ELSE IF validate_structure(d) # <<>>
        THEN LcRaised("ValidationError", "structure", index, s3, nid, {})
        ELSE update_validated(index, nid, existing_tool, d, F,
                              validate_code(s3, d.code, d.language, TRUE, F))

\* ToolLifecycleManager.update_tool, steps 1 to 5
update_tool_record(index, s3, nid, tool_id, d, agent_id, F) ==
    LET loaded == repo_get_by_id(index, tool_id, F)
        existing_tool == loaded.value
        structure_errors == validate_structure(d)
        new_code_hash == compute_code_hash(d.code, d.language)
        code_changed == new_code_hash # existing_tool.code_hash
    IN  IF loaded.exc # "none"
        THEN LcRaised("StorageError", "get_by_id", index, s3, nid, {})
        ELSE IF existing_tool = NoneValue
        THEN LcRaised("RegistrationError", "not_found", index, s3, nid, {})
        ELSE IF ~owned_by(existing_tool, agent_id)
        THEN LcRaised("RegistrationError", "not_owner", index, s3, nid, {})
        ELSE IF structure_errors # <<>>
        THEN LcRaised("ValidationError", "structure", index, s3, nid, {})
        ELSE IF code_changed
        THEN update_validated(index, nid, existing_tool, d, F,
                              validate_code(s3, d.code, d.language, TRUE, F))
        ELSE update_record(index, nid, existing_tool, d, F,
                           existing_tool.code_artifact_s3_key, s3, {})

\* ToolLifecycleManager.update_tool
update_tool(index, s3, nid, tool_id, d, agent_id, F, registry_ok) ==
    after_sync_tool_metadata(update_tool_record(index, s3, nid, tool_id, d, agent_id, F),
                             registry_call(registry_ok))

\* ToolLifecycleManager.deregister_tool, step 3: a RegistrationError of the
\* remote deregistration is only logged and the cleanup continues
continues_after_remote_deregistration(exc) == exc \in {"none", "RegistrationError"}

\* ToolLifecycleManager.deregister_tool: the outcomes it can have, one for
\* each item the codeHash query may return
deregister_tool(index, s3, nid, tool_id, agent_id, delete_flag, F, registry_ok) ==
    LET loaded == repo_get_by_id(index, tool_id, F)
        tool_record == loaded.value
        removed == IF delete_flag THEN repo_delete(index, tool_id, F)
                   ELSE repo_update_status(index, tool_id, "inactive", F)
        purged == delete_artifact(s3, tool_record.code_hash, tool_record.language, F)
        Cleanup(other_tools) ==
            IF other_tools = NoneValue \/ other_tools.tool_id = tool_id
            THEN IF purged.exc # "none"
                 THEN LcRaised("StorageError", purged.reason, removed.index, purged.s3, nid, {})
                 ELSE LcReturned(NoneValue, removed.index, purged.s3, nid, {})
            ELSE LcReturned(NoneValue, removed.index, s3, nid, {})
    IN  IF loaded.exc # "none"
        THEN {LcRaised("StorageError", "get_by_id", index, s3, nid, {})}
        ELSE IF tool_record = NoneValue
        THEN {LcRaised("RegistrationError", "not_found", index, s3, nid, {})}
        ELSE IF ~owned_by(tool_record, agent_id)
        THEN {LcRaised("RegistrationError", "not_owner", index, s3, nid, {})}
        ELSE IF ~continues_after_remote_deregistration(registry_call(registry_ok))
        THEN {LcRaised("RegistrationError", "unexpected", index, s3, nid, {})}
        ELSE IF removed.exc # "none"
        THEN {LcRaised("StorageError", removed.reason, index, s3, nid, {})}
        ELSE IF delete_flag /\ tool_record.code_hash # NoHash
        THEN IF "db_query" \in F
             THEN {LcRaised("StorageError", "find_by_code_hash", removed.index, s3, nid, {})}
             ELSE { Cleanup(other_tools) :
                      other_tools \in find_by_code_hash_results(removed.index,
                                                                tool_record.code_hash) }
        ELSE {LcReturned(NoneValue, removed.index, s3, nid, {})}

\* ToolLifecycleManager.get_tool_status: a missing record is a StorageError
get_tool_status(index, s3, nid, tool_id, F) ==
    LET loaded == repo_get_by_id(index, tool_id, F)
        tool_record == loaded.value
    IN  IF loaded.exc # "none"
        THEN LcRaised("StorageError", "get_by_id", index, s3, nid, {})
        ELSE IF tool_record = NoneValue
        THEN LcRaised("StorageError", "not_found", index, s3, nid, {})
        ELSE LcReturned([kind |-> "status", toolId |-> tool_id,
                         status |-> tool_record.status, version |-> tool_record.version],
                        index, s3, nid, {})

\* ------------------------------------------------------------------ the system
\* the ids a caller may name: those handed out, and one never handed out
KnownIds == 0..MaxTools

Artifacts(s3) == { k \in DOMAIN s3 : s3[k].kind = "CachedToolArtifact" }

UsageWithinBound(s3) == \A k \in Artifacts(s3) : s3[k].usage_count <= MaxUsage

Init ==
    /\ tool_index = <<>>
    /\ s3_objects = <<>>
    /\ next_id = 0
    /\ validated = {}
    /\ policy = DefaultPolicy
    /\ probe = NoneValue
    /\ answer = NoneValue
    /\ calls = <<>>
    /\ analyzers = <<>>
    /\ lists = <<>>

\* the outcomes within the bounds: ids handed out, usage counts
Admissible(r) == r.next_id <= MaxTools /\ UsageWithinBound(r.s3)

\* a call completes: what it left in the stores, and the ids handed out
Completes(r) ==
    /\ Admissible(r)
    /\ tool_index' = r.index
    /\ s3_objects' = r.s3
    /\ next_id' = r.next_id
    /\ validated' = validated \cup r.analysed
    /\ UNCHANGED <<policy, probe, answer>>
    /\ UNCHANGED concurrent

Register ==
    \E d \in ToolDefinitions, a \in Owners, skip_cache \in BOOLEAN, e \in RegisterEnvironments :
        Completes(register_tool(tool_index, s3_objects, next_id, d, a, skip_cache,
                                e.F, e.registry_ok))

Update ==
    \E t \in KnownIds, d \in ToolDefinitions, a \in Agents, e \in UpdateEnvironments :
        Completes(update_tool(tool_index, s3_objects, next_id, t, d, a, e.F, e.registry_ok))

Deregister ==
    \E t \in KnownIds, a \in Agents, delete_flag \in BOOLEAN, e \in DeregisterEnvironments :
        \E r \in deregister_tool(tool_index, s3_objects, next_id, t, a, delete_flag,
                                 e.F, e.registry_ok) :
            Completes(r)

GetToolStatus ==
    \E t \in KnownIds, e \in StatusEnvironments :
        Completes(get_tool_status(tool_index, s3_objects, next_id, t, e.F))

Next == Register \/ Update \/ Deregister \/ GetToolStatus

Spec == Init /\ [][Next]_vars

\* ------------------------------------------------------------------ the validation service alone
\* the longest source handed to the analyzers and the hash function
MaxLen == 2

RECURSIVE SeqsUpTo(_, _)
SeqsUpTo(S, n) ==
    IF n = 0 THEN {<<>>}
    ELSE LET shorter == SeqsUpTo(S, n - 1)
         IN  shorter \cup { Append(q, x) : q \in { r \in shorter : Len(r) = n - 1 }, x \in S }

\* every source of at most MaxLen lines
Sources == SeqsUpTo(Lines, MaxLen)

Submission(code, language) == [code |-> code, language |-> language]

\* the submissions the callers of the service make
Submissions ==
    { Submission(<<"stmt">>, "python"), Submission(<<"stmt", "ws">>, "python"),
      Submission(<<"rec">>, "python"), Submission(<<"import_os">>, "python"),
      Submission(<<"bad">>, "python"), Submission(<<"js_rec">>, "javascript") }

\* what the stores and the Bandit subprocess do during one call of the service
ValidationEnvironments ==
    { {}, {"s3_head"}, {"s3_get"}, {"s3_put_json"}, {"s3_put_code"}, {"s3_put_audit"},
      {"bandit_missing"}, {"bandit_low"} }

ValidationInit ==
    /\ tool_index = <<>>
    /\ s3_objects = <<>>
    /\ next_id = 0
    /\ validated = {}
    /\ policy = DefaultPolicy
    /\ probe = NoneValue
    /\ answer = NoneValue
    /\ calls = <<>>
    /\ analyzers = <<>>
    /\ lists = <<>>

\* a call of the service completes
Served(r, code, language) ==
    /\ UsageWithinBound(r.s3)
    /\ s3_objects' = r.s3
    /\ validated' = validated \cup (IF r.analysed THEN {compute_code_hash(code, language)} ELSE {})
    /\ UNCHANGED <<tool_index, next_id, policy, probe, answer>>
    /\ UNCHANGED concurrent

ValidateCode ==
    \E s \in Submissions, use_cache \in BOOLEAN, F \in ValidationEnvironments :
        Served(validate_code(s3_objects, s.code, s.language, use_cache, F), s.code, s.language)

ValidateCodeSafe ==
    \E s \in Submissions, use_cache \in BOOLEAN, F \in ValidationEnvironments :
        Served(validate_code_safe(s3_objects, s.code, s.language, use_cache, F),
               s.code, s.language)

UpdateUsageCount ==
    \E s \in Submissions, F \in ValidationEnvironments :
        LET r == update_usage_count(s3_objects, compute_code_hash(s.code, s.language), F)
        IN  /\ UsageWithinBound(r.s3)
            /\ s3_objects' = r.s3
            /\ UNCHANGED <<tool_index, next_id, validated, policy, probe, answer>>
            /\ UNCHANGED concurrent

UpdatePolicy ==
    \E p \in Policies :
        /\ policy' = update_policy(p)
        /\ s3_objects' = invalidate_all_for_policy_update(s3_objects)
        /\ UNCHANGED <<tool_index, next_id, validated, probe, answer>>
        /\ UNCHANGED concurrent

\* what the stores do during one call of invalidate_cache_for_code
InvalidationEnvironments == { {}, {"s3_delete_json"}, {"s3_delete_code"} }

InvalidateCacheForCode ==
    \E s \in Submissions, F \in InvalidationEnvironments :
        /\ s3_objects' = invalidate_cache_for_code(s3_objects, s.code, s.language, F).s3
        /\ UNCHANGED <<tool_index, next_id, validated, policy, probe, answer>>
        /\ UNCHANGED concurrent

ValidationNext ==
    ValidateCode \/ ValidateCodeSafe \/ UpdateUsageCount \/ UpdatePolicy
        \/ InvalidateCacheForCode

ValidationSpec == ValidationInit /\ [][ValidationNext]_vars

\* ------------------------------------------------------------------ the functions of the validation, one source at a time
\* the source under study: any source of at most MaxLen lines, declared in
\* any supported language
Probes == { Submission(code, language) : code \in Sources, language \in SupportedLanguages }

\* what the Bandit subprocess does during one analysis
BanditEnvironments == { {} } \cup { {b} : b \in BanditOutcomes }

\* what the stores and the Bandit subprocess do during one call of the
\* service on the source under study
ProbeEnvironments == { {}, {"s3_head"}, {"s3_put_code"}, {"bandit_high"} }

AnalysisInit ==
    /\ tool_index = <<>>
    /\ s3_objects = <<>>
    /\ next_id = 0
    /\ validated = {}
    /\ policy = DefaultPolicy
    /\ probe \in Probes
    /\ answer = NoneValue
    /\ calls = <<>>
    /\ analyzers = <<>>
    /\ lists = <<>>

\* what an operation on the source under study gave
Answer(op, value) == [kind |-> "answer", op |-> op, value |-> value]

\* the last operation on the source under study was "op"
Asked(op) == answer.kind = "answer" /\ answer.op = op

\* what analyze gave: its result, or the exception that left it
Analysis(result) ==
    IF result.kind = "raised" THEN Answer("analyze_raised", result.exc)
    ELSE Answer("analyze", result)

\* the analyzer CodeValidator routes the language to
analyze(code, language, F) ==
    IF language = "python" THEN py_analyze(code, F) ELSE js_analyze(code, language)

\* PythonAnalyzer.analyze or JavaScriptAnalyzer.analyze of the source
Analyze ==
    \E F \in BanditEnvironments :
        /\ answer' = Analysis(analyze(probe.code, probe.language, F))
        /\ UNCHANGED <<tool_index, s3_objects, next_id, validated, policy, probe>>
        /\ UNCHANGED concurrent

\* ArtifactStorage.compute_code_hash of the source
ComputeCodeHash ==
    /\ answer' = Answer("compute_code_hash", compute_code_hash(probe.code, probe.language))
    /\ UNCHANGED <<tool_index, s3_objects, next_id, validated, policy, probe>>
    /\ UNCHANGED concurrent

\* a call of the service on the source completes
Answered(op, r) ==
    /\ UsageWithinBound(r.s3)
    /\ s3_objects' = r.s3
    /\ validated' = validated \cup
            (IF r.analysed THEN {compute_code_hash(probe.code, probe.language)} ELSE {})
    /\ answer' = Answer(op, r)
    /\ UNCHANGED <<tool_index, next_id, policy, probe>>
    /\ UNCHANGED concurrent

ValidateProbe ==
    \E use_cache \in BOOLEAN, F \in ProbeEnvironments :
        Answered("validate_code",
                 validate_code(s3_objects, probe.code, probe.language, use_cache, F))

ValidateProbeSafe ==
    \E use_cache \in BOOLEAN, F \in ProbeEnvironments :
        Answered("validate_code_safe",
                 validate_code_safe(s3_objects, probe.code, probe.language, use_cache, F))

AnalysisNext == Analyze \/ ComputeCodeHash \/ ValidateProbe \/ ValidateProbeSafe

AnalysisSpec == AnalysisInit /\ [][AnalysisNext]_vars

\* ------------------------------------------------------------------ overlapping calls
\* Two threads call one ValidationService (constructed with caching disabled)
\* and one ArtifactStorage; a step is one statement of a call, so the steps
\* of the two calls interleave in every order.
Threads == {"t1", "t2"}

\* the thread that is not t
Other(t) == CHOOSE u \in Threads : u # t

\* a call of validate_code before its first statement
ValidateJob(code, language) ==
    [op |-> "validate_code", code |-> code, language |-> language, pc |-> "start",
     attempt |-> 0, result |-> NoneValue, outcome |-> NoneValue, interleaved |-> FALSE]

\* a call of update_usage_count before its first statement
UsageJob(code_hash) ==
    [op |-> "update_usage_count", code_hash |-> code_hash, pc |-> "start",
     artifact |-> NoneValue, outcome |-> NoneValue, interleaved |-> FALSE]

\* the artifact the cache holds when the threads start
CachedSubmission == Submission(<<"stmt">>, "python")

CachedAtStart ==
    cache_validation_result(<<>>, CachedSubmission.code, CachedSubmission.language,
                            validate_safe(CachedSubmission.code, CachedSubmission.language, {}),
                            {}).s3

\* the calls a thread makes
Jobs ==
    { ValidateJob(<<"stmt">>, "python"), ValidateJob(<<"call_eval">>, "python"),
      ValidateJob(<<"bad">>, "python"), ValidateJob(<<"ws">>, "python"),
      ValidateJob(<<"deep">>, "python"),
      ValidateJob(<<"js_stmt">>, "javascript"), ValidateJob(<<"require_fs">>, "javascript"),
      UsageJob(compute_code_hash(CachedSubmission.code, CachedSubmission.language)) }

\* the attributes of an analyzer that hold lists
ListAttributes == {"errors", "warnings", "security_issues"}

\* the analyzer instance CodeValidator holds for the language
analyzer_of(language) == IF language = "python" THEN "python_analyzer" ELSE "javascript_analyzer"

\* the list object a statement creates: who created it, in which of their
\* analyses, for which attribute
ListRef(owner, attempt, attribute) == <<owner, attempt, attribute>>

\* PythonAnalyzer.__init__, JavaScriptAnalyzer.__init__
NewAnalyzer(name) == [a \in ListAttributes |-> ListRef(name, 0, a)]

ConcurrentInit ==
    /\ tool_index = <<>>
    /\ s3_objects = CachedAtStart
    /\ next_id = 0
    /\ validated = {}
    /\ policy = DefaultPolicy
    /\ probe = NoneValue
    /\ answer = NoneValue
    /\ calls \in [Threads -> Jobs]
    /\ analyzers = [n \in {"python_analyzer", "javascript_analyzer"} |-> NewAnalyzer(n)]
    /\ lists = [r \in { ListRef(n, 0, a) : n \in {"python_analyzer", "javascript_analyzer"},
                                            a \in ListAttributes } |-> <<>>]

\* a call between its first and its last statement
Busy(c) == c.pc \notin {"start", "done"}

\* thread t takes a step that leaves its call as c; a step taken while the
\* other call is under way marks both calls as interleaved
Advance(t, c) ==
    calls' = [u \in Threads |->
                IF u = t THEN [c EXCEPT !.interleaved = @ \/ Busy(calls[Other(t)])]
                ELSE [calls[u] EXCEPT !.interleaved = @ \/ Busy(calls[u])]]

\* the statements of analyze, in order
Statements(language) ==
    IF language = "python"
    THEN <<"reset_errors", "reset_warnings", "reset_security_issues", "parse", "analyze_ast",
           "run_bandit_scan", "result">>
    ELSE <<"reset_errors", "reset_warnings", "reset_security_issues", "validate_syntax",
           "analyze_security_patterns", "analyze_imports", "result">>

\* the statement after pc
Following(language, pc) ==
    Statements(language)[1 + CHOOSE i \in 1..Len(Statements(language)) :
                                 Statements(language)[i] = pc]

\* the analyzer of the call's language, as the thread finds it
Self(c) == analyzers[analyzer_of(c.language)]

\* list.append on the list an attribute of the analyzer refers to now
AppendTo(c, attribute, items) ==
    lists' = [lists EXCEPT ![Self(c)[attribute]] = @ \o items]

\* the frame of a step that touches the analyzers' lists at most
OnlyLists ==
    UNCHANGED <<tool_index, s3_objects, next_id, validated, policy, probe, answer>>

\* validate_code with the cache disabled goes to CodeValidator.validate_safe
\* and validate: a blank source raises ValidationError before any analysis,
\* and the handler in validate_safe analyses it
Call(t) ==
    /\ calls[t].op = "validate_code"
    /\ calls[t].pc = "start"
    /\ Advance(t, [calls[t] EXCEPT !.pc = "reset_errors",
                                   !.attempt = IF Strip(calls[t].code) = <<>> THEN 2 ELSE 1])
    /\ OnlyLists
    /\ UNCHANGED <<analyzers, lists>>

\* analyze: self.errors = [], self.warnings = [], self.security_issues = []
ResetAttribute(t, c, attribute) ==
    /\ analyzers' = [analyzers EXCEPT
                        ![analyzer_of(c.language)][attribute] = ListRef(t, c.attempt, attribute)]
    /\ lists' = [r \in DOMAIN lists \cup {ListRef(t, c.attempt, attribute)} |->
                    IF r = ListRef(t, c.attempt, attribute) THEN <<>> ELSE lists[r]]
    /\ Advance(t, [c EXCEPT !.pc = Following(c.language, c.pc)])
    /\ OnlyLists

Reset(t) ==
    /\ calls[t].op = "validate_code"
    /\ \/ calls[t].pc = "reset_errors" /\ ResetAttribute(t, calls[t], "errors")
       \/ calls[t].pc = "reset_warnings" /\ ResetAttribute(t, calls[t], "warnings")
       \/ calls[t].pc = "reset_security_issues"
            /\ ResetAttribute(t, calls[t], "security_issues")

\* the result analyze builds: the lists by reference, as the analyzer holds
\* them when the result is built
Built(c, is_valid, resource_estimate) ==
    [ValidationResult(c.code, c.language) EXCEPT
        !.is_valid = is_valid,
        !.errors = Self(c).errors,
        !.warnings = Self(c).warnings,
        !.security_issues = Self(c).security_issues,
        !.resource_estimate = resource_estimate]

\* PythonAnalyzer.analyze, ast.parse: a syntax error is appended and the
\* analysis ends with it; another exception leaves the call
ParseSteps(t, c, bad_lines, raising) ==
    IF bad_lines # {}
    THEN /\ AppendTo(c, "errors", << <<"Syntax error at line", SetMin(bad_lines)>> >>)
         /\ Advance(t, [c EXCEPT !.pc = "syntax_error"])
    ELSE IF raising # {}
    THEN /\ Advance(t, [c EXCEPT !.pc = "done",
                                 !.outcome = [exc |-> PyLine(c.code[SetMin(raising)]).raises,
                                              value |-> NoneValue]])
         /\ UNCHANGED lists
    ELSE /\ Advance(t, [c EXCEPT !.pc = Following(c.language, c.pc)])
         /\ UNCHANGED lists

Parse(t) ==
    /\ calls[t].op = "validate_code"
    /\ calls[t].pc = "parse"
    /\ ParseSteps(t, calls[t],
                  { i \in 1..Len(calls[t].code) : ~PyLine(calls[t].code[i]).syntax_ok },
                  { i \in 1..Len(calls[t].code) : PyLine(calls[t].code[i]).raises # "none" })
    /\ OnlyLists
    /\ UNCHANGED analyzers

\* what validate_safe does with the result of an analysis: the first
\* analysis, inside validate, is stamped and returned when valid and raises
\* ValidationError otherwise, upon which the handler analyses once more; the
\* handler returns its result as it is
Analysed_then(c, result) ==
    IF c.attempt = 1 /\ ~result.is_valid
    THEN [c EXCEPT !.pc = "reset_errors", !.attempt = 2]
    ELSE [c EXCEPT !.pc = "evaluate",
                   !.result = IF c.attempt = 1
                              THEN [result EXCEPT !.validation_timestamp = "utcnow"]
                              ELSE result]

\* PythonAnalyzer.analyze: the return in the handler of SyntaxError
SyntaxErrorResult(t) ==
    /\ calls[t].op = "validate_code"
    /\ calls[t].pc = "syntax_error"
    /\ Advance(t, Analysed_then(calls[t], Built(calls[t], FALSE, NoneValue)))
    /\ OnlyLists
    /\ UNCHANGED <<analyzers, lists>>

\* PythonAnalyzer._analyze_ast
AnalyzeAst(t) ==
    /\ calls[t].op = "validate_code"
    /\ calls[t].pc = "analyze_ast"
    /\ AppendTo(calls[t], "security_issues", py_analyze_ast(calls[t].code))
    /\ Advance(t, [calls[t] EXCEPT !.pc = Following(calls[t].language, calls[t].pc)])
    /\ OnlyLists
    /\ UNCHANGED analyzers

\* PythonAnalyzer._run_bandit_scan, of a Bandit that runs and reports nothing
RunBanditScan(t) ==
    /\ calls[t].op = "validate_code"
    /\ calls[t].pc = "run_bandit_scan"
    /\ lists' = [lists EXCEPT
                    ![Self(calls[t]).warnings] = @ \o run_bandit_scan({}).warnings,
                    ![Self(calls[t]).security_issues] = @ \o run_bandit_scan({}).issues]
    /\ Advance(t, [calls[t] EXCEPT !.pc = Following(calls[t].language, calls[t].pc)])
    /\ OnlyLists
    /\ UNCHANGED analyzers

\* JavaScriptAnalyzer._validate_syntax
ValidateSyntax(t) ==
    /\ calls[t].op = "validate_code"
    /\ calls[t].pc = "validate_syntax"
    /\ AppendTo(calls[t], "errors", js_validate_syntax(calls[t].code))
    /\ Advance(t, [calls[t] EXCEPT !.pc = Following(calls[t].language, calls[t].pc)])
    /\ OnlyLists
    /\ UNCHANGED analyzers

\* JavaScriptAnalyzer._analyze_security_patterns
AnalyzeSecurityPatterns(t) ==
    /\ calls[t].op = "validate_code"
    /\ calls[t].pc = "analyze_security_patterns"
    /\ AppendTo(calls[t], "security_issues", js_analyze_security_patterns(calls[t].code))
    /\ Advance(t, [calls[t] EXCEPT !.pc = Following(calls[t].language, calls[t].pc)])
    /\ OnlyLists
    /\ UNCHANGED analyzers

\* JavaScriptAnalyzer._analyze_imports
AnalyzeImports(t) ==
    /\ calls[t].op = "validate_code"
    /\ calls[t].pc = "analyze_imports"
    /\ AppendTo(calls[t], "security_issues", js_analyze_imports(calls[t].code))
    /\ Advance(t, [calls[t] EXCEPT !.pc = Following(calls[t].language, calls[t].pc)])
    /\ OnlyLists
    /\ UNCHANGED analyzers

\* the end of analyze: the estimate, is_valid from the lists the analyzer
\* holds now, and the result
Result(t) ==
    /\ calls[t].op = "validate_code"
    /\ calls[t].pc = "result"
    /\ Advance(t, Analysed_then(calls[t],
            Built(calls[t],
                  /\ lists[Self(calls[t]).errors] = <<>>
                  /\ ~has_critical_issues(lists[Self(calls[t]).security_issues]),
                  IF calls[t].language = "python" THEN py_estimate_resources(calls[t].code)
                  ELSE js_estimate_resources(calls[t].code))))
    /\ OnlyLists
    /\ UNCHANGED <<analyzers, lists>>

\* a result with the contents of the lists it refers to
Deref(result) ==
    [result EXCEPT !.errors = lists[@], !.warnings = lists[@], !.security_issues = lists[@]]

\* what a call gave its caller: the exception and what it carries, or the
\* returned value
Outcome(r) == [exc |-> r.exc, value |-> r.value]

\* validate_code, steps 3 and 4: evaluate the result, then raise or return
\* (a service without a cache caches nothing)
Evaluate(t) ==
    /\ calls[t].op = "validate_code"
    /\ calls[t].pc = "evaluate"
    /\ Advance(t, [calls[t] EXCEPT
            !.pc = "done",
            !.outcome = Outcome(validate_code_miss(policy, s3_objects, calls[t].code,
                                                   calls[t].language, {},
                                                   Deref(calls[t].result)))])
    /\ OnlyLists
    /\ UNCHANGED <<analyzers, lists>>

\* the frame of a step of update_usage_count
OnlyBucket ==
    UNCHANGED <<tool_index, next_id, validated, policy, probe, answer, analyzers, lists>>

\* an update_usage_count that writes back the artifact as it read it
RetrieveSteps_without_increment(t, c, got) ==
    IF got.exc # "none" \/ got.value = NoneValue
    THEN Advance(t, [c EXCEPT !.pc = "done",
                              !.outcome = [exc |-> "StorageError", value |-> NoneValue]])
    ELSE Advance(t, [c EXCEPT !.pc = "put_json", !.artifact = got.value])

\* update_usage_count: retrieve_artifact and increment_usage on the copy the
\* thread holds
RetrieveSteps(t, c, got) ==
    IF got.exc # "none" \/ got.value = NoneValue
    THEN Advance(t, [c EXCEPT !.pc = "done",
                              !.outcome = [exc |-> "StorageError", value |-> NoneValue]])
    ELSE Advance(t, [c EXCEPT !.pc = "put_json",
                              !.artifact = [got.value EXCEPT !.usage_count = @ + 1]])

Retrieve(t) ==
    /\ calls[t].op = "update_usage_count"
    /\ calls[t].pc = "start"
    /\ RetrieveSteps(t, calls[t], retrieve_artifact(s3_objects, calls[t].code_hash, {}))
    /\ OnlyBucket
    /\ UNCHANGED s3_objects

\* update_usage_count, store_artifact: put_object of the metadata JSON
PutJson(t) ==
    /\ calls[t].op = "update_usage_count"
    /\ calls[t].pc = "put_json"
    /\ s3_objects' = S3Put(s3_objects, get_artifact_key(calls[t].artifact.code_hash),
                           calls[t].artifact)
    /\ Advance(t, [calls[t] EXCEPT !.pc = "put_code"])
    /\ OnlyBucket

\* update_usage_count, store_artifact: put_object of the raw code
PutCode(t) ==
    /\ calls[t].op = "update_usage_count"
    /\ calls[t].pc = "put_code"
    /\ s3_objects' = S3Put(s3_objects,
                           get_code_key(calls[t].artifact.code_hash, calls[t].artifact.language),
                           [kind |-> "code", body |-> calls[t].artifact.validated_code])
    /\ Advance(t, [calls[t] EXCEPT !.pc = "done",
                                   !.outcome = [exc |-> "none", value |-> NoneValue]])
    /\ OnlyBucket

ConcurrentNext ==
    \E t \in Threads :
        \/ Call(t)
        \/ Reset(t)
        \/ Parse(t)
        \/ SyntaxErrorResult(t)
        \/ AnalyzeAst(t)
        \/ RunBanditScan(t)
        \/ ValidateSyntax(t)
        \/ AnalyzeSecurityPatterns(t)
        \/ AnalyzeImports(t)
        \/ Result(t)
        \/ Evaluate(t)
        \/ Retrieve(t)
        \/ PutJson(t)
        \/ PutCode(t)

ConcurrentSpec == ConcurrentInit /\ [][ConcurrentNext]_vars

\* ------------------------------------------------------------------ register: publish failure
\* register_tool failed at the publish step, after persisting the record
PublishFailed(r) == r.exc = "RegistrationError" /\ r.reason = "publish"

\* a following get_tool_status for the tool id reports "not found"
StatusNotFound(r, tool_id) ==
    LET q == get_tool_status(r.index, r.s3, r.next_id, tool_id, {})
    IN  q.exc = "StorageError" /\ q.reason = "not_found"

\* C1 as stated: every register_tool call that fails at the publish step
\* leaves no record with the tool id it created, and a following
\* get_tool_status reports not found.
C1_NoRecordAfterPublishFailure ==
    \A d \in ToolDefinitions, a \in Owners, skip_cache \in BOOLEAN, e \in RegisterEnvironments :
        LET r == register_tool(tool_index, s3_objects, next_id, d, a, skip_cache,
                               e.F, e.registry_ok)
        IN  (Admissible(r) /\ PublishFailed(r))
                => (next_id \notin DOMAIN r.index /\ StatusNotFound(r, next_id))

\* C1 amended: a register_tool call that fails at the publish step leaves no
\* record with the tool id it created when the compensating delete succeeds,
\* and leaves the record it persisted when the compensating delete fails.
C1_RollbackRemovesRecordUnlessDeleteFails ==
    \A d \in ToolDefinitions, a \in Owners, skip_cache \in BOOLEAN, e \in RegisterEnvironments :
        LET r == register_tool(tool_index, s3_objects, next_id, d, a, skip_cache,
                               e.F, e.registry_ok)
        IN  (Admissible(r) /\ PublishFailed(r))
                => IF "db_delete" \in e.F
                   THEN next_id \in DOMAIN r.index
                   ELSE next_id \notin DOMAIN r.index /\ StatusNotFound(r, next_id)

\* a state in which register_tool persists a record, fails to publish it and
\* deletes it again, beside a record of an earlier registration
C1_Witness ==
    \E d \in ToolDefinitions, a \in Owners, e \in RegisterEnvironments :
        LET r == register_tool(tool_index, s3_objects, next_id, d, a, FALSE,
                               e.F, e.registry_ok)
        IN  /\ Admissible(r) /\ PublishFailed(r) /\ "db_delete" \notin e.F
            /\ tool_index # <<>>
            /\ r.index = tool_index
            /\ StatusNotFound(r, next_id)

\* ------------------------------------------------------------------ ownership
\* a call failed at the ownership check
NotOwner(r) == r.exc = "RegistrationError" /\ r.reason = "not_owner"

\* a call left the tool index and the bucket as they are
Untouched(r) == r.index = tool_index /\ r.s3 = s3_objects

\* C2: for every persisted record and every agent other than its owner,
\* update_tool and deregister_tool (with either delete_artifact) fail and
\* leave the tool index and the cache as they were; the failure is the
\* RegistrationError of the ownership check whenever the record could be read.
C2_OwnershipEnforced ==
    \A t \in DOMAIN tool_index, a \in Agents :
        a # tool_index[t].agent_id =>
            /\ \A d \in ToolDefinitions, e \in UpdateEnvironments :
                 LET r == update_tool(tool_index, s3_objects, next_id, t, d, a,
                                      e.F, e.registry_ok)
                 IN  /\ r.exc # "none"
                     /\ Untouched(r)
                     /\ "db_get" \notin e.F => NotOwner(r)
            /\ \A delete_flag \in BOOLEAN, e \in DeregisterEnvironments :
                 \A r \in deregister_tool(tool_index, s3_objects, next_id, t, a,
                                          delete_flag, e.F, e.registry_ok) :
                     /\ r.exc # "none"
                     /\ Untouched(r)
                     /\ "db_get" \notin e.F => NotOwner(r)

\* a state with an active record and its artifact in the cache, in which
\* another agent's update_tool and deregister_tool are refused
C2_Witness ==
    \E t \in DOMAIN tool_index, a \in Agents :
        /\ a # tool_index[t].agent_id
        /\ tool_index[t].status = "active"
        /\ tool_index[t].code_artifact_s3_key \in DOMAIN s3_objects
        /\ NotOwner(update_tool(tool_index, s3_objects, next_id, t,
                                Definition("2.0.0", "python", <<"stmt2">>), a, {}, TRUE))
        /\ \A r \in deregister_tool(tool_index, s3_objects, next_id, t, a, TRUE, {}, TRUE) :
               NotOwner(r) /\ Untouched(r)

\* ------------------------------------------------------------------ shared artifacts
\* the records of the index that reference a content hash
Referencing(index, code_hash) == { t \in DOMAIN index : index[t].code_hash = code_hash }

\* the artifact of a record is in the bucket: its metadata JSON and its raw code
ArtifactStored(s3, tool_record) ==
    /\ get_artifact_key(tool_record.code_hash) \in DOMAIN s3
    /\ get_code_key(tool_record.code_hash, tool_record.language) \in DOMAIN s3

\* neither object of the artifact of a record is in the bucket
ArtifactGone(s3, tool_record) ==
    /\ get_artifact_key(tool_record.code_hash) \notin DOMAIN s3
    /\ get_code_key(tool_record.code_hash, tool_record.language) \notin DOMAIN s3

\* C3: when exactly the records of tools A and B reference one content hash,
\* a deregister_tool(A, delete_artifact = true) that returns deletes A's
\* record and leaves the bucket as it is, and a deregister_tool(B,
\* delete_artifact = true) that returns after it deletes B's record and
\* both objects of the artifact.
C3_SharedArtifactDeletedLast ==
    \A tA \in DOMAIN tool_index, tB \in DOMAIN tool_index :
        (tA # tB /\ Referencing(tool_index, tool_index[tA].code_hash) = {tA, tB}) =>
            \A eA \in DeregisterEnvironments :
            \A rA \in deregister_tool(tool_index, s3_objects, next_id, tA,
                                      tool_index[tA].agent_id, TRUE, eA.F, eA.registry_ok) :
                rA.exc = "none" =>
                    /\ tA \notin DOMAIN rA.index
                    /\ rA.s3 = s3_objects
                    /\ \A eB \in DeregisterEnvironments :
                       \A rB \in deregister_tool(rA.index, rA.s3, rA.next_id, tB,
                                                 tool_index[tB].agent_id, TRUE,
                                                 eB.F, eB.registry_ok) :
                           rB.exc = "none" =>
                               /\ tB \notin DOMAIN rB.index
                               /\ ArtifactGone(rB.s3, tool_index[tB])

\* a state with two records on one content hash whose artifact is in the
\* bucket, in which deregistering the first with delete_artifact keeps the
\* artifact and deregistering the second then removes it
C3_Witness ==
    \E tA \in DOMAIN tool_index, tB \in DOMAIN tool_index :
        /\ tA # tB
        /\ Referencing(tool_index, tool_index[tA].code_hash) = {tA, tB}
        /\ ArtifactStored(s3_objects, tool_index[tA])
        /\ \E rA \in deregister_tool(tool_index, s3_objects, next_id, tA,
                                     tool_index[tA].agent_id, TRUE, {}, TRUE) :
              /\ rA.exc = "none"
              /\ ArtifactStored(rA.s3, tool_index[tA])
              /\ \E rB \in deregister_tool(rA.index, rA.s3, rA.next_id, tB,
                                           tool_index[tB].agent_id, TRUE, {}, TRUE) :
                    rB.exc = "none" /\ ArtifactGone(rB.s3, tool_index[tB])

\* ------------------------------------------------------------------ referenced artifacts
\* C4: in every reachable state, the content hash and the storage key of
\* every persisted record name an artifact that is in the cache: the
\* storage key is the key of an artifact object, and both objects stored
\* for the content hash are there.
C4_ReferencedArtifactsPresent ==
    \A t \in DOMAIN tool_index :
        /\ tool_index[t].code_artifact_s3_key \in Artifacts(s3_objects)
        /\ artifact_exists(s3_objects, tool_index[t].code_hash, {}).value
        /\ ArtifactStored(s3_objects, tool_index[t])

\* a state in which one tool was deregistered with its artifact deleted
\* while the record of another tool still has its artifact
C4_Witness ==
    /\ \E t \in DOMAIN tool_index : ArtifactStored(s3_objects, tool_index[t])
    /\ \E t \in 0..(next_id - 1) : t \notin DOMAIN tool_index
    /\ \E h \in validated : get_artifact_key(h) \notin DOMAIN s3_objects

\* ------------------------------------------------------------------ admission control
\* the analyzer and the policy accept a source
Accepted(code, language) ==
    LET result == validate_safe(code, language, {})
    IN  result.is_valid /\ ~has_critical_violations(evaluate(DefaultPolicy, result))

\* C5: in every reachable state, every persisted record references a content
\* hash whose source the validation service analysed and accepted before the
\* record was written, and the source cached under that hash is one the
\* analyzer and the policy accept.
C5_RecordsReferenceValidatedSource ==
    \A t \in DOMAIN tool_index :
        /\ tool_index[t].code_hash \in validated
        /\ LET key == get_artifact_key(tool_index[t].code_hash)
           IN  key \in DOMAIN s3_objects =>
                   Accepted(s3_objects[key].validated_code, s3_objects[key].language)

\* a state with a record of an accepted source in which register_tool and
\* update_tool refuse a source the analyzer rejects and write no record
C5_Witness ==
    \E t \in DOMAIN tool_index :
        LET d == Definition("1.0.0", "python", <<"import_os">>)
            r == register_tool(tool_index, s3_objects, next_id, d,
                               tool_index[t].agent_id, FALSE, {}, TRUE)
            u == update_tool(tool_index, s3_objects, next_id, t, d,
                             tool_index[t].agent_id, {}, TRUE)
        IN  /\ tool_index[t].code_hash \in validated
            /\ ~Accepted(d.code, d.language)
            /\ r.exc = "ValidationError" /\ r.index = tool_index
            /\ u.exc = "ValidationError" /\ u.index = tool_index

\* ------------------------------------------------------------------ register and update of new source
\* C6 as stated: register_tool of a structurally valid definition whose
\* source is not in the cache and is accepted, with every store call and the
\* publish succeeding, returns an ACTIVE record that is persisted in the tool
\* index, and the artifact for the source's hash is in the cache.
C6_RegisterUncachedSourceSucceeds ==
    \A d \in WellFormedDefinitions, a \in Owners, skip_cache \in BOOLEAN :
        LET code_hash == compute_code_hash(d.code, d.language)
            r == register_tool(tool_index, s3_objects, next_id, d, a, skip_cache, {}, TRUE)
        IN  (/\ Accepted(d.code, d.language)
             /\ get_artifact_key(code_hash) \notin DOMAIN s3_objects
             /\ Admissible(r))
                => /\ r.exc = "none"
                   /\ r.value.status = "active"
                   /\ next_id \in DOMAIN r.index
                   /\ r.index[next_id] = r.value
                   /\ get_artifact_key(code_hash) \in DOMAIN r.s3

\* C7 as stated: update_tool by the owner with a structurally valid
\* definition whose hash differs from the record's and whose source is
\* accepted, with every store call succeeding, returns; the artifact for the
\* new hash is in the cache and the returned and the persisted record carry
\* the definition's version.
C7_UpdateWithNewSourceSucceeds ==
    \A t \in DOMAIN tool_index, d \in WellFormedDefinitions, registry_ok \in BOOLEAN :
        LET code_hash == compute_code_hash(d.code, d.language)
            r == update_tool(tool_index, s3_objects, next_id, t, d,
                             tool_index[t].agent_id, {}, registry_ok)
        IN  (/\ Accepted(d.code, d.language)
             /\ code_hash # tool_index[t].code_hash
             /\ Admissible(r))
                => /\ r.exc = "none"
                   /\ get_artifact_key(code_hash) \in DOMAIN r.s3
                   /\ r.value.version = d.version
                   /\ r.index[t].version = d.version

ToolNotFound(r) == r.exc = "RegistrationError" /\ r.reason = "not_found"

\* the tool ids handed out whose record is not in the tool index
DeletedIds == { t \in 0..(next_id - 1) : t \notin DOMAIN tool_index }

\* C9: for a tool id that was handed out and whose record is no longer in
\* the tool index, no register_tool, update_tool or deregister_tool call
\* brings a record with that id back; update_tool and deregister_tool on it
\* fail with the tool-not-found RegistrationError whenever the index can be
\* read, and get_tool_status reports not found.
C9_DeletedRecordStaysDeleted ==
    \A t \in DeletedIds :
        /\ \A d \in ToolDefinitions, a \in Owners, skip_cache \in BOOLEAN,
              e \in RegisterEnvironments :
               t \notin DOMAIN register_tool(tool_index, s3_objects, next_id, d, a,
                                             skip_cache, e.F, e.registry_ok).index
        /\ \A d \in ToolDefinitions, a \in Agents, e \in UpdateEnvironments :
               LET r == update_tool(tool_index, s3_objects, next_id, t, d, a,
                                    e.F, e.registry_ok)
               IN  /\ t \notin DOMAIN r.index
                   /\ r.exc # "none"
                   /\ "db_get" \notin e.F => ToolNotFound(r)
        /\ \A a \in Agents, delete_flag \in BOOLEAN, e \in DeregisterEnvironments :
               \A r \in deregister_tool(tool_index, s3_objects, next_id, t, a,
                                        delete_flag, e.F, e.registry_ok) :
                   /\ t \notin DOMAIN r.index
                   /\ r.exc # "none"
                   /\ "db_get" \notin e.F => ToolNotFound(r)
        /\ get_tool_status(tool_index, s3_objects, next_id, t, {}).reason = "not_found"

\* a state with a record in which deregister_tool with delete_artifact
\* deletes it, after which update_tool, deregister_tool and get_tool_status
\* on its id find no tool and register_tool creates a record under another id
C9_Witness ==
    \E t \in DOMAIN tool_index :
    \E r \in deregister_tool(tool_index, s3_objects, next_id, t,
                             tool_index[t].agent_id, TRUE, {}, TRUE) :
        LET d == Definition("1.0.0", "python", <<"stmt">>)
            again == register_tool(r.index, r.s3, r.next_id, d, tool_index[t].agent_id,
                                   FALSE, {}, TRUE)
        IN  /\ r.exc = "none"
            /\ t \notin DOMAIN r.index
            /\ ToolNotFound(update_tool(r.index, r.s3, r.next_id, t, d,
                                        tool_index[t].agent_id, {}, TRUE))
            /\ \A q \in deregister_tool(r.index, r.s3, r.next_id, t,
                                        tool_index[t].agent_id, TRUE, {}, TRUE) :
                   ToolNotFound(q)
            /\ StatusNotFound(r, t)
            /\ again.exc = "none"
            /\ t \notin DOMAIN again.index

\* ------------------------------------------------------------------ status
\* C10: an update_tool that returns leaves the status of the record as it
\* was, ACTIVE or INACTIVE, and leaves every other record as it was; a record
\* register_tool creates is ACTIVE, in what it returns and in the tool index.
C10_UpdateKeepsStatus ==
    /\ \A t \in DOMAIN tool_index, d \in ToolDefinitions, a \in Agents,
          e \in UpdateEnvironments :
           LET r == update_tool(tool_index, s3_objects, next_id, t, d, a, e.F, e.registry_ok)
           IN  /\ DOMAIN r.index = DOMAIN tool_index
               /\ \A u \in DOMAIN tool_index : r.index[u].status = tool_index[u].status
               /\ r.exc = "none" => r.value.status = tool_index[t].status
    /\ \A d \in ToolDefinitions, a \in Owners, skip_cache \in BOOLEAN,
          e \in RegisterEnvironments :
           LET r == register_tool(tool_index, s3_objects, next_id, d, a, skip_cache,
                                  e.F, e.registry_ok)
           IN  /\ r.exc = "none" =>
                     r.value.status = "active" /\ r.index[next_id].status = "active"
               /\ next_id \in DOMAIN r.index => r.index[next_id].status = "active"

\* a state with an INACTIVE record in which update_tool by its owner returns
\* with a new version and the record is still INACTIVE
C10_Witness ==
    \E t \in DOMAIN tool_index, d \in WellFormedDefinitions :
        LET r == update_tool(tool_index, s3_objects, next_id, t, d,
                             tool_index[t].agent_id, {}, TRUE)
        IN  /\ tool_index[t].status = "inactive"
            /\ r.exc = "none"
            /\ r.index[t].version # tool_index[t].version
            /\ r.index[t].status = "inactive"

\* ------------------------------------------------------------------ soft deregistration
\* C11: a deregister_tool by the owner with delete_artifact = false that
\* returns leaves the record in the tool index with status INACTIVE and its
\* other fields as they were, leaves every other record as it was, and
\* leaves the bucket (artifact content and usage_count) as it was.
C11_SoftDeregisterFrame ==
    \A t \in DOMAIN tool_index, e \in DeregisterEnvironments :
    \A r \in deregister_tool(tool_index, s3_objects, next_id, t,
                             tool_index[t].agent_id, FALSE, e.F, e.registry_ok) :
        r.exc = "none" =>
            /\ DOMAIN r.index = DOMAIN tool_index
            /\ r.index[t] = [tool_index[t] EXCEPT !.status = "inactive"]
            /\ \A u \in DOMAIN tool_index \ {t} : r.index[u] = tool_index[u]
            /\ r.s3 = s3_objects

\* a state with an ACTIVE record whose artifact is in the cache with a
\* counted use, in which the owner's deregister_tool without delete_artifact
\* returns and the record is INACTIVE
C11_Witness ==
    \E t \in DOMAIN tool_index :
    \E r \in deregister_tool(tool_index, s3_objects, next_id, t,
                             tool_index[t].agent_id, FALSE, {}, TRUE) :
        /\ tool_index[t].status = "active"
        /\ ArtifactStored(s3_objects, tool_index[t])
        /\ s3_objects[tool_index[t].code_artifact_s3_key].usage_count > 0
        /\ r.exc = "none"
        /\ r.index[t].status = "inactive"
        /\ r.index[t].version = tool_index[t].version
        /\ r.s3 = s3_objects

\* ------------------------------------------------------------------ recursion under the two policies
\* the sources with a line that defines and calls a function
RecursiveSources == { code \in Sources : HasToken(code, "rec") \/ HasToken(code, "js_rec") }

\* the analyzer of the language finds the source valid and flags it recursive
FlaggedRecursive(code, language) ==
    /\ validate_safe(code, language, {}).kind = "ValidationResult"
    /\ validate_safe(code, language, {}).is_valid
    /\ validate_safe(code, language, {}).resource_estimate.has_recursion

\* the RES001 violations that cite recursion
CitingRecursion(violations) ==
    SelectSeq(violations,
              LAMBDA v : /\ v.rule_id = "RES001"
                         /\ v.message = <<"Recursion is not allowed by security policy", "">>)

\* the two policies disagree on whether the call raises
RejectedByDefaultOnly(strict, lax) ==
    /\ strict.exc = "ValidationError"
    /\ lax.exc = "none"

\* the two policies disagree only on the violations they report
ReportedByDefaultOnly(strict, lax) ==
    /\ strict.exc = "none" /\ lax.exc = "none"
    /\ strict.value.result.is_valid /\ lax.value.result.is_valid
    /\ strict.value.result = lax.value.result
    /\ strict.s3 = lax.s3
    /\ Len(CitingRecursion(strict.value.violations)) = 1
    /\ CitingRecursion(strict.value.violations)[1].severity = "high"
    /\ CitingRecursion(lax.value.violations) = <<>>

CacheWorks == { F \in ValidationEnvironments : F \cap FaultPoints = {} }

\* the artifact the cache holds for a source, NoneValue when it holds none
Cached(s3, code, language) ==
    IF get_artifact_key(compute_code_hash(code, language)) \in DOMAIN s3
    THEN s3[get_artifact_key(compute_code_hash(code, language))]
    ELSE NoneValue

\* the validate_code call that follows the call "first" on the same source
Again(first, code, language, F) == validate_code(first.s3, code, language, TRUE, F)

\* the first call accepted the source after at most one analysis, and the
\* second call returned a cache hit without running an analyzer
AnalysedOnlyInFirst(first, second) ==
    /\ first.analyses <= 1
    /\ second.exc = "none"
    /\ second.analyses = 0
    /\ ~second.analysed

\* C13: with cache reads and writes that succeed, of two consecutive
\* validate_code calls on the same valid source only the first runs the
\* analyzer; the second is a cache hit and performs no analysis.
C13_SecondCallIsCacheHit ==
    \A s \in Submissions, F1 \in CacheWorks, F2 \in CacheWorks :
        validate_code(s3_objects, s.code, s.language, TRUE, F1).exc = "none" =>
            AnalysedOnlyInFirst(
                validate_code(s3_objects, s.code, s.language, TRUE, F1),
                Again(validate_code(s3_objects, s.code, s.language, TRUE, F1),
                      s.code, s.language, F2))

\* a state where the recursive one-line function is not cached: the first
\* call analyses it once and caches it, the second call hits and counts one use
C13_Witness ==
    /\ Cached(s3_objects, <<"rec">>, "python") = NoneValue
    /\ validate_code(s3_objects, <<"rec">>, "python", TRUE, {}).exc = "none"
    /\ validate_code(s3_objects, <<"rec">>, "python", TRUE, {}).analyses = 1
    /\ Again(validate_code(s3_objects, <<"rec">>, "python", TRUE, {}),
             <<"rec">>, "python", {}).analyses = 0
    /\ Cached(Again(validate_code(s3_objects, <<"rec">>, "python", TRUE, {}),
                    <<"rec">>, "python", {}).s3, <<"rec">>, "python").usage_count = 1

\* ------------------------------------------------------------------ the result of a cache hit
\* the two results agree on validity, content hash, errors, warnings,
\* findings (type, severity, message, line) and resource estimate
SameResult(a, b) ==
    /\ a.is_valid = b.is_valid
    /\ a.code_hash = b.code_hash
    /\ a.errors = b.errors
    /\ a.warnings = b.warnings
    /\ a.security_issues = b.security_issues
    /\ a.resource_estimate = b.resource_estimate

\* both calls return, with results that agree
SecondCallAgrees(first, second) ==
    /\ second.exc = "none"
    /\ SameResult(first.value.result, second.value.result)

\* C14: the second of two consecutive validate_code calls on the same valid
\* source returns a ValidationResult identical to the first call's: same
\* is_valid, content hash, errors, warnings, findings and resource estimate.
C14_SecondResultIdentical ==
    \A s \in Submissions, F1 \in CacheWorks, F2 \in CacheWorks :
        validate_code(s3_objects, s.code, s.language, TRUE, F1).exc = "none" =>
            SecondCallAgrees(
                validate_code(s3_objects, s.code, s.language, TRUE, F1),
                Again(validate_code(s3_objects, s.code, s.language, TRUE, F1),
                      s.code, s.language, F2))

\* ------------------------------------------------------------------ a cache hit after a policy update
\* the hit returns, without analysis, the violations the fresh validation returns
ViolationsAsFresh(hit, fresh) ==
    /\ hit.exc = "none"
    /\ hit.analyses = 0
    /\ fresh.exc = "none"
    /\ hit.value.violations = fresh.value.violations

\* C15: for a source in the cache, after update_policy(P2) a validate_code
\* call that hits the cache returns the same violations as a fresh
\* validation (use_cache = false) of that source under P2, the resource-limit
\* violations included.
C15_CacheHitViolationsAsFresh ==
    \A s \in Submissions, P2 \in Policies :
        Cached(s3_objects, s.code, s.language) # NoneValue =>
            ViolationsAsFresh(
                validate_code_under(update_policy(P2), s3_objects, s.code, s.language, TRUE, {}),
                validate_code_under(update_policy(P2), s3_objects, s.code, s.language, FALSE, {}))

\* ------------------------------------------------------------------ the usage count of an artifact
\* no artifact that stays in the bucket has its usage count lowered
UsageCountKept(before, after) ==
    \A k \in Artifacts(before) \cap Artifacts(after) :
        after[k].usage_count >= before[k].usage_count

\* C16: while an artifact stays in the cache its usage_count never decreases,
\* whatever call of the validation service or of the storage runs next.
C16_UsageCountNeverDecreases == [][UsageCountKept(s3_objects, s3_objects')]_vars

\* ------------------------------------------------------------------ register: rejected source
\* definitions that pass validate_structure and whose source has a syntax
\* error or a critical finding
RejectedDefinitions ==
    { Definition("1.0.0", "python", <<"bad">>),
      Definition("1.0.0", "python", <<"stmt", "call_eval">>),
      Definition("1.0.0", "javascript", <<"js_open">>),
      Definition("1.0.0", "typescript", <<"require_fs">>) }

\* the analyzer of the language reports an error or a critical finding
RejectedByAnalyzer(result) ==
    result.errors # <<>> \/ has_critical_issues(result.security_issues)

\* the messages of the critical findings of a result, in order
CriticalMessages(result) ==
    [i \in 1..Len(SelectSeq(result.security_issues, LAMBDA f : f.severity = "critical")) |->
        SelectSeq(result.security_issues, LAMBDA f : f.severity = "critical")[i].message]

\* the call raised the ValidationError of the validation service, carrying
\* the errors and the critical messages of the analysis
RaisedWithFindings(r, result) ==
    /\ r.exc = "ValidationError"
    /\ r.reason = "validation"
    /\ r.value.kind = "ValidationError"
    /\ r.value.errors = result.errors
    /\ r.value.security_issues = CriticalMessages(result)
    /\ r.value.errors # <<>> \/ r.value.security_issues # <<>>

\* the call failed before step 5: no record written, no tool id drawn (so no
\* call of the registry, which step 7 makes for the record of step 5), the
\* bucket as it was
NothingRegistered(r, index, s3, nid) ==
    /\ r.exc # "none"
    /\ r.index = index
    /\ r.next_id = nid
    /\ r.s3 = s3

ProhibitedUse(tok, language) ==
    IF language = "python"
    THEN CASE tok \in {"import_os", "import_os_path", "from_os", "from_os_path"} -> {"os"}
           [] tok = "call_eval" -> {"eval"}
           [] OTHER -> {}
    ELSE CASE tok \in {"require_fs", "import_fs_from", "import_fs"} -> {"fs"}
           [] OTHER -> {}

\* a source of the language: blank lines and statements of the language
SourceOf(code, language) ==
    \A i \in 1..Len(code) :
        code[i] \in {"ws"} \cup (IF language = "python" THEN PythonLines ELSE JavaScriptLines)

\* the prohibited modules and built-ins a source of the language uses
ProhibitedUses(code, language) ==
    IF SourceOf(code, language)
    THEN UNION { ProhibitedUse(code[i], language) : i \in 1..Len(code) }
    ELSE {}

\* the result is invalid and has a critical finding whose message names "name"
RejectedNaming(result, name) ==
    /\ ~result.is_valid
    /\ \E i \in 1..Len(result.security_issues) :
          /\ result.security_issues[i].severity = "critical"
          /\ result.security_issues[i].message[2] = name

\* C18: for every Python source that imports a prohibited module or calls a
\* prohibited built-in, and every JS/TS source that requires or imports a
\* prohibited module, the analyzer's result is invalid and has a critical
\* finding whose message names that module or function.
C18_ProhibitedUseRejected ==
    Asked("analyze") =>
        \A name \in ProhibitedUses(probe.code, probe.language) :
            RejectedNaming(answer.value, name)

\* ------------------------------------------------------------------ the content hash
\* the hash under which a validate_code call on an empty bucket caches the
\* source, NoHash when it caches nothing
CachedUnder(code, language) ==
    LET r == validate_code(<<>>, code, language, TRUE, {})
    IN  IF Artifacts(r.s3) = {} THEN NoHash
        ELSE r.s3[CHOOSE k \in Artifacts(r.s3) : TRUE].code_hash

\* C19: compute_code_hash is a function of the language tag and the stripped
\* source: the hash of a source is the hash of its stripped text, a repeated
\* call and the call the validation cache makes give the same value, and
\* the same source under another language tag has another hash.
C19_HashOfStrippedSource ==
    Asked("compute_code_hash") =>
        /\ answer.value = compute_code_hash(Strip(probe.code), probe.language)
        /\ answer.value = compute_code_hash(probe.code, probe.language)
        /\ CachedUnder(probe.code, probe.language) \in {NoHash, answer.value}
        /\ CachedUnder(Strip(probe.code), probe.language)
                = CachedUnder(probe.code, probe.language)
        /\ \A language \in SupportedLanguages \ {probe.language} :
              compute_code_hash(probe.code, language) # answer.value

\* the hash of a statement followed by a blank line has been computed: it is
\* the hash of the statement alone, the one the cache files the source under
C19_Witness ==
    /\ Asked("compute_code_hash")
    /\ probe = Submission(<<"stmt", "ws">>, "python")
    /\ Strip(probe.code) = <<"stmt">>
    /\ answer.value = compute_code_hash(<<"stmt">>, "python")
    /\ CachedUnder(probe.code, probe.language) = answer.value

\* ------------------------------------------------------------------ validity of a result
\* is_valid is false exactly when the result has an error or a critical finding
ValidityConsistent(result) ==
    ~result.is_valid <=> (result.errors # <<>> \/ has_critical_issues(result.security_issues))

\* C20: every ValidationResult an analyzer produces, and every one
\* validate_code or validate_code_safe returns, has is_valid false exactly
\* when its errors list is non-empty or one of its findings is critical.
C20_InvalidIffErrorOrCritical ==
    /\ Asked("analyze") => ValidityConsistent(answer.value)
    /\ (Asked("validate_code") \/ Asked("validate_code_safe")) =>
          (answer.value.exc = "none" => ValidityConsistent(answer.value.value.result))

\* validate_code_safe has just returned, invalid and with its critical
\* finding, the result of a source that calls a prohibited built-in
C20_Witness ==
    /\ Asked("validate_code_safe")
    /\ probe = Submission(<<"call_eval", "stmt">>, "python")
    /\ answer.value.exc = "none"
    /\ ~answer.value.value.result.is_valid
    /\ has_critical_issues(answer.value.value.result.security_issues)

\* ------------------------------------------------------------------ validate_code_safe
\* the pair validate_code_safe hands back for a fresh analysis of the source
\* and its evaluation under the policy the service holds
FreshPair(fresh) == ResultPair(fresh, evaluate(policy, fresh))

\* C21: validate_code_safe never raises, whatever the source text, the
\* language and the outcome of the cache, and whenever validate_code would
\* fail it returns the pair of a fresh analysis and its evaluation.
C21_SafeVariantNeverRaises ==
    \A use_cache \in BOOLEAN, F \in ProbeEnvironments :
        LET plain == validate_code(s3_objects, probe.code, probe.language, use_cache, F)
            safe == validate_code_safe(s3_objects, probe.code, probe.language, use_cache, F)
            fresh == validate_safe(probe.code, probe.language, F)
        IN  /\ safe.exc = "none"
            /\ plain.exc # "none" =>
                  /\ fresh.kind = "ValidationResult"
                  /\ safe.value = FreshPair(fresh)

\* ------------------------------------------------------------------ overlapping validations
\* what validate_code gives when no other call is under way
Alone(c) ==
    Outcome(validate_code_miss(policy, s3_objects, c.code, c.language, {},
                               validate_safe(c.code, c.language, {})))

\* the errors, warnings and findings of an outcome: those the ValidationError
\* carries, or those of the returned result
Reported(outcome) ==
    IF outcome.exc = "ValidationError"
    THEN [exc |-> outcome.exc, errors |-> outcome.value.errors,
          warnings |-> outcome.value.warnings, findings |-> outcome.value.security_issues]
    ELSE IF outcome.exc = "none"
    THEN [exc |-> outcome.exc, errors |-> outcome.value.result.errors,
          warnings |-> outcome.value.result.warnings,
          findings |-> outcome.value.result.security_issues]
    ELSE [exc |-> outcome.exc, errors |-> <<>>, warnings |-> <<>>, findings |-> <<>>]

\* both threads call validate_code, on different sources
TwoValidations ==
    /\ \A t \in Threads : calls[t].op = "validate_code"
    /\ <<calls["t1"].code, calls["t1"].language>> # <<calls["t2"].code, calls["t2"].language>>

\* C22: under every interleaving of two validate_code calls on different
\* sources (caching disabled), each call that has completed reports exactly
\* the errors, warnings and findings it reports when it runs alone.
C22_OverlappingValidationsIndependent ==
    TwoValidations =>
        \A t \in Threads :
            calls[t].pc = "done" => Reported(calls[t].outcome) = Reported(Alone(calls[t]))

\* ------------------------------------------------------------------ overlapping increments
\* both threads call update_usage_count, on the same content hash
TwoIncrements ==
    /\ \A t \in Threads : calls[t].op = "update_usage_count"
    /\ calls["t1"].code_hash = calls["t2"].code_hash

\* the usage_count the cache holds for the content hash of thread t's call
UsageCountOf(t) == s3_objects[get_artifact_key(calls[t].code_hash)].usage_count

\* the calls that have written the artifact back
Written == { t \in Threads : calls[t].pc \in {"put_code", "done"} }

\* C23: update_usage_count reads the whole artifact, adds one and writes the
\* whole artifact back. Of two increments of the same content hash, those
\* that run one at a time raise usage_count by exactly one each; increments
\* that overlap raise it by at least one and at most one each, so two
\* overlapping increments can leave it only one higher.
C23_IncrementIsReadModifyWrite ==
    TwoIncrements =>
        /\ (\A t \in Threads : ~calls[t].interleaved) =>
               UsageCountOf("t1") = Cardinality(Written)
        /\ UsageCountOf("t1") <= Cardinality(Written)
        /\ Written # {} => UsageCountOf("t1") >= 1
        /\ \A t \in Threads :
               calls[t].pc \in {"put_json", "put_code"} =>
                   calls[t].artifact.usage_count <= UsageCountOf(t) + 1

\* both increments have completed without an error and usage_count is one
\* higher than before, not two: an increment is lost
C23_Witness ==
    /\ TwoIncrements
    /\ \A t \in Threads : calls[t].pc = "done" /\ calls[t].outcome.exc = "none"
    /\ UsageCountOf("t1") = 1

\* ------------------------------------------------------------------ registry failures
\* C24: a registry failure during update_tool (the metadata sync) or during
\* deregister_tool (the remote deregistration) never fails the operation and
\* never changes its local effect: whatever the stores do, the call has the
\* outcome and leaves the tool index and the bucket that it has and leaves
\* when the registry answers.
C24_RegistryFailureIsOnlyLogged ==
    /\ \A t \in DOMAIN tool_index, d \in ToolDefinitions, a \in Agents,
          e \in UpdateEnvironments :
           update_tool(tool_index, s3_objects, next_id, t, d, a, e.F, FALSE)
               = update_tool(tool_index, s3_objects, next_id, t, d, a, e.F, TRUE)
    /\ \A t \in DOMAIN tool_index, a \in Agents, delete_flag \in BOOLEAN,
          e \in DeregisterEnvironments :
           deregister_tool(tool_index, s3_objects, next_id, t, a, delete_flag, e.F, FALSE)
               = deregister_tool(tool_index, s3_objects, next_id, t, a, delete_flag, e.F, TRUE)

\* a state in which, with the registry failing, update_tool by the owner
\* returns the record with its new version written to the tool index, and
\* deregister_tool by the owner returns with the record marked inactive
C24_Witness ==
    \E t \in DOMAIN tool_index, d \in WellFormedDefinitions :
        LET r == update_tool(tool_index, s3_objects, next_id, t, d,
                             tool_index[t].agent_id, {}, FALSE)
        IN  /\ tool_index[t].status = "active"
            /\ r.exc = "none"
            /\ r.index[t].version # tool_index[t].version
            /\ \E q \in deregister_tool(tool_index, s3_objects, next_id, t,
                                        tool_index[t].agent_id, FALSE, {}, FALSE) :
                   q.exc = "none" /\ q.index[t].status = "inactive"

\* ------------------------------------------------------------------ register: what the rollback leaves
\* the bucket a failed call leaves holds every object it held before the
\* call, the artifact of the submitted source among them, changed in
\* nothing but the usage_count the call added one to
KeepsArtifacts(before, after, code_hash, hit) ==
    /\ DOMAIN before \subseteq DOMAIN after
    /\ get_artifact_key(code_hash) \in DOMAIN after
    /\ \A k \in DOMAIN before :
           IF hit /\ k = get_artifact_key(code_hash)
           THEN after[k] = [before[k] EXCEPT !.usage_count = @ + 1]
           ELSE after[k] = before[k]

\* C25: when register_tool fails at the registry publish step, the
\* compensating action removes nothing but the ToolRecord: the artifact that
\* was in the cache before the publish attempt is still there, and the
\* usage_count increment the call made on a cache hit is not undone.
C25_RollbackKeepsArtifact ==
    \A d \in ToolDefinitions, a \in Owners, skip_cache \in BOOLEAN, e \in RegisterEnvironments :
        LET r == register_tool(tool_index, s3_objects, next_id, d, a, skip_cache,
                               e.F, e.registry_ok)
            code_hash == compute_code_hash(d.code, d.language)
        IN  PublishFailed(r) =>
                KeepsArtifacts(s3_objects, r.s3, code_hash,
                               ~skip_cache /\ get_artifact_key(code_hash) \in DOMAIN s3_objects)

\* a state in which register_tool of a cached source fails at the publish
\* step: the record is gone from the tool index, the artifact is in the
\* bucket and its usage_count is one higher than before the call
C25_Witness ==
    \E d \in WellFormedDefinitions, a \in Owners :
        LET r == register_tool(tool_index, s3_objects, next_id, d, a, FALSE, {}, FALSE)
            key == get_artifact_key(compute_code_hash(d.code, d.language))
        IN  /\ key \in DOMAIN s3_objects
            /\ PublishFailed(r)
            /\ next_id \notin DOMAIN r.index
            /\ r.s3[key].usage_count = s3_objects[key].usage_count + 1

\* ------------------------------------------------------------------ register: rollback failure
\* C26: when the publish fails and the compensating delete fails as well,
\* register_tool raises the publish failure (RegistrationError, not the
\* StorageError of the delete), has attempted the delete exactly once, and
\* leaves the ToolRecord it persisted in the tool index, as the call with an
\* answering registry leaves it.
C26_FailedRollbackKeepsRecord ==
    \A d \in ToolDefinitions, a \in Owners, skip_cache \in BOOLEAN, e \in RegisterEnvironments :
        LET published == register_tool(tool_index, s3_objects, next_id, d, a, skip_cache,
                                       e.F, TRUE)
            r == register_tool(tool_index, s3_objects, next_id, d, a, skip_cache, e.F, FALSE)
        IN  (published.exc = "none" /\ "db_delete" \in e.F) =>
                /\ r.exc = "RegistrationError" /\ r.reason = "publish"
                /\ r.delete_attempts = 1
                /\ next_id \in DOMAIN r.index
                /\ r.index = published.index
                /\ r.index[next_id] = published.value

\* a state in which register_tool of a cached source persists the record,
\* fails to publish it and fails to delete it: RegistrationError is raised
\* and the tool index has the new record beside those it had
C26_Witness ==
    \E d \in WellFormedDefinitions, a \in Owners :
        LET r == register_tool(tool_index, s3_objects, next_id, d, a, FALSE,
                               {"db_delete"}, FALSE)
        IN  /\ r.exc = "RegistrationError" /\ r.reason = "publish"
            /\ r.delete_attempts = 1
            /\ DOMAIN r.index = DOMAIN tool_index \cup {next_id}
            /\ next_id \notin DOMAIN tool_index

\* ------------------------------------------------------------------ failing cache write
\* the call sites of the cache write that follows a successful validation
CacheWriteFaults == {"s3_put_json", "s3_put_code", "s3_put_audit"}

\* validate_code returned the pair of the call "success", a valid result
ReturnsAsSuccess(r, success) ==
    /\ r.exc = "none"
    /\ r.value = success.value
    /\ r.value.result.is_valid

\* C27 as stated: when the cache write or the audit log write that follows a
\* successful validation fails, validate_code returns the pair it returns
\* when they succeed, and the cache holds no artifact for the hash and is
\* otherwise as it was.
C27_FailedCacheWriteLeavesNoArtifact ==
    \A s \in Submissions, use_cache \in BOOLEAN, p \in CacheWriteFaults :
        LET success == validate_code(s3_objects, s.code, s.language, use_cache, {})
            r == validate_code(s3_objects, s.code, s.language, use_cache, {p})
        IN  (success.exc = "none" /\ success.analysed
                /\ Cached(s3_objects, s.code, s.language) = NoneValue) =>
                /\ ReturnsAsSuccess(r, success)
                /\ Cached(r.s3, s.code, s.language) = NoneValue
                /\ r.s3 = s3_objects

\* C27 amended: when the cache write or the audit log write that follows a
\* successful validation fails, validate_code returns the pair it returns
\* when they succeed and raises nothing. When the write of the artifact's
\* metadata fails the cache is as it was before the call; when the write of
\* the raw code fails the cache holds the artifact's metadata, as after a
\* successful call, without the raw code object; when only the audit entry
\* fails the cache holds the artifact exactly as after a successful call.
C27_FailedCacheWriteStillReturns ==
    \A s \in Submissions, use_cache \in BOOLEAN, p \in CacheWriteFaults :
        LET success == validate_code(s3_objects, s.code, s.language, use_cache, {})
            r == validate_code(s3_objects, s.code, s.language, use_cache, {p})
            code_hash == compute_code_hash(s.code, s.language)
        IN  (success.exc = "none" /\ success.analysed) =>
                /\ ReturnsAsSuccess(r, success)
                /\ p = "s3_put_json" => r.s3 = s3_objects
                /\ p = "s3_put_code" =>
                       r.s3 = S3Put(s3_objects, get_artifact_key(code_hash),
                                    success.s3[get_artifact_key(code_hash)])
                /\ p = "s3_put_audit" => r.s3 = success.s3

\* a state in which the one-statement source is not cached and validate_code
\* analyses it while the write of the raw code fails: the pair is returned
\* with is_valid true, and the cache holds the artifact's metadata
C27_Witness ==
    LET r == validate_code(s3_objects, <<"stmt">>, "python", TRUE, {"s3_put_code"})
    IN  /\ Cached(s3_objects, <<"stmt">>, "python") = NoneValue
        /\ r.exc = "none"
        /\ r.analysed
        /\ r.value.result.is_valid
        /\ Cached(r.s3, <<"stmt">>, "python") # NoneValue
        /\ get_code_key(compute_code_hash(<<"stmt">>, "python"), "python") \notin DOMAIN r.s3

\* ------------------------------------------------------------------ failing cache read
\* the call sites of a cache lookup: the existence check and the read
CacheReadFaults == {"s3_head", "s3_get"}

\* validate_code with a failing lookup does what it does without a lookup
ValidateTreatsFailureAsMiss ==
    \A d \in WellFormedDefinitions, p \in CacheReadFaults :
        validate_code(s3_objects, d.code, d.language, TRUE, {p})
            = validate_code(s3_objects, d.code, d.language, FALSE, {p})

\* register_tool with a failing lookup does what it does without a lookup
RegisterTreatsFailureAsMiss ==
    \A d \in ToolDefinitions, a \in Owners, p \in CacheReadFaults, registry_ok \in BOOLEAN :
        register_tool(tool_index, s3_objects, next_id, d, a, FALSE, {p}, registry_ok)
            = register_tool(tool_index, s3_objects, next_id, d, a, TRUE, {p}, registry_ok)

\* C28: a cache read failure during the cache lookup is treated as a miss
\* and never fails the operation: validate_code analyses the source as if
\* nothing were cached, and register_tool continues on the miss path.
C28_CacheReadFailureIsAMiss ==
    ValidateTreatsFailureAsMiss /\ RegisterTreatsFailureAsMiss

\* ------------------------------------------------------------------ policy update and the cache
\* the step removes the artifact under key k by invalidating the cache for a
\* source with that content hash
InvalidatedByOwnSource(k) ==
    \E s \in Submissions, F \in InvalidationEnvironments :
        /\ k = get_artifact_key(compute_code_hash(s.code, s.language))
        /\ s3_objects' = invalidate_cache_for_code(s3_objects, s.code, s.language, F).s3

EndsWithoutValidation ==
    {"ok", "get_by_id", "not_found", "not_owner", "structure", "update"}

\* C30: an update_tool whose new source has the content hash of the record
\* calls no validation service and writes nothing to the cache: it ends as a
\* call ends that has not reached the service, analyses nothing and leaves
\* the bucket as it was; when it returns, the record keeps its content hash
\* and its storage key, only its declared fields (name, version) are those
\* of the definition, and every other record is as it was.
C30_UnchangedSourceNotRevalidated ==
    \A t \in DOMAIN tool_index, d \in ToolDefinitions, a \in Agents, e \in UpdateEnvironments :
        LET r == update_tool(tool_index, s3_objects, next_id, t, d, a, e.F, e.registry_ok)
        IN  compute_code_hash(d.code, d.language) = tool_index[t].code_hash =>
                /\ r.reason \in EndsWithoutValidation
                /\ r.analysed = {}
                /\ r.s3 = s3_objects
                /\ r.exc = "none" =>
                       /\ r.index[t] = [tool_index[t] EXCEPT !.name = d.name,
                                                             !.version = d.version]
                       /\ r.value.code_hash = tool_index[t].code_hash
                       /\ r.value.code_artifact_s3_key = tool_index[t].code_artifact_s3_key
                       /\ \A u \in DOMAIN tool_index \ {t} : r.index[u] = tool_index[u]

\* a state in which update_tool by the owner, with the source of the record
\* and a new version, returns: the record has the new version, the same
\* content hash and storage key, and the cached artifact keeps its usage_count
C30_Witness ==
    \E t \in DOMAIN tool_index, d \in WellFormedDefinitions :
        LET r == update_tool(tool_index, s3_objects, next_id, t, d,
                             tool_index[t].agent_id, {}, TRUE)
        IN  /\ compute_code_hash(d.code, d.language) = tool_index[t].code_hash
            /\ d.version # tool_index[t].version
            /\ r.exc = "none"
            /\ r.index[t].version = d.version
            /\ r.index[t].code_hash = tool_index[t].code_hash
            /\ r.index[t].code_artifact_s3_key = tool_index[t].code_artifact_s3_key
            /\ tool_index[t].code_artifact_s3_key \in DOMAIN s3_objects
            /\ r.s3 = s3_objects

\* ------------------------------------------------------------------ register: cache hit
\* the store call sites the cache-hit path of register_tool goes through
\* before the artifact is written back with its new usage_count
UsageUpdateFaults == {"s3_get", "s3_put_json"}

\* the artifact under key k is in both buckets with the same validated code,
\* validation result, content hash and language
SameContent(before, after, k) ==
    /\ k \in DOMAIN after
    /\ after[k].validated_code = before[k].validated_code
    /\ after[k].validation_result = before[k].validation_result
    /\ after[k].code_hash = before[k].code_hash
    /\ after[k].language = before[k].language

\* C31: register_tool with skip_cache = false, for a well-formed definition
\* whose artifact is cached, does not call the validation service (it
\* analyses nothing and never ends as a call that reached the service ends),
\* leaves the artifact's validated code and validation result as they were
\* (the raw code object, when written, holds the validated code the artifact
\* had), leaves every other object alone, and adds exactly one to its usage_count when the read and the write of
\* the usage update succeed (nothing when one of them fails).
C31_CacheHitOnlyBumpsUsage ==
    \A d \in WellFormedDefinitions, a \in Owners, e \in RegisterEnvironments :
        LET code_hash == compute_code_hash(d.code, d.language)
            k == get_artifact_key(code_hash)
            raw == get_code_key(code_hash, d.language)
            r == register_tool(tool_index, s3_objects, next_id, d, a, FALSE,
                               e.F, e.registry_ok)
        IN  k \in DOMAIN s3_objects =>
                /\ r.analysed = {}
                /\ r.reason \notin {"validation", "result_attribute", "unexpected", "analysis"}
                /\ SameContent(s3_objects, r.s3, k)
                /\ \A j \in (DOMAIN s3_objects \cup DOMAIN r.s3) \ {k, raw} :
                       j \in DOMAIN s3_objects /\ j \in DOMAIN r.s3 /\ r.s3[j] = s3_objects[j]
                /\ raw \in DOMAIN r.s3 => r.s3[raw].body = s3_objects[k].validated_code
                /\ r.s3[k].usage_count =
                       IF e.F \cap UsageUpdateFaults = {}
                       THEN s3_objects[k].usage_count + 1
                       ELSE s3_objects[k].usage_count

\* a state with a cached artifact that has been used, and a definition of
\* other text with the same content hash, whose registration returns a new
\* record, leaves the validated code of the first submission and counts one
\* more use
C31_Witness ==
    \E d \in WellFormedDefinitions, a \in Owners :
        LET k == get_artifact_key(compute_code_hash(d.code, d.language))
            r == register_tool(tool_index, s3_objects, next_id, d, a, FALSE, {}, TRUE)
        IN  /\ k \in DOMAIN s3_objects
            /\ s3_objects[k].usage_count >= 1
            /\ r.exc = "none"
            /\ r.value.tool_id \notin DOMAIN tool_index
            /\ r.s3[k].validated_code = s3_objects[k].validated_code
            /\ r.s3[k].usage_count = s3_objects[k].usage_count + 1

\* ------------------------------------------------------------------ evaluate: order of the violations
\* a policy a caller constructs whose every limit is below every estimate
\* (SecurityPolicy and ResourceLimits accept any values)
TightPolicy ==
    [policy_id |-> "tight-v1",
     resource_limits |-> [max_memory_mb |-> 0, max_cpu_ms |-> 0, max_complexity |-> 0,
                          max_nesting_depth |-> 0, allow_loops |-> TRUE,
                          allow_recursion |-> FALSE]]

\* the policies an evaluator is constructed with
EvaluatorPolicies == Policies \cup {TightPolicy}

\* the place of a resource-limit check in the fixed order, from the message
\* of its violation; 0 for any other message
CheckOrder(message) ==
    CASE message[1] = "Estimated memory usage exceeds limit" -> 1
      [] message[1] = "Estimated CPU time exceeds limit" -> 2
      [] message[1] = "Code complexity exceeds limit" -> 3
      [] message[1] = "Nesting depth exceeds limit" -> 4
      [] message[1] = "Recursion is not allowed by security policy" -> 5
      [] OTHER -> 0

\* the violations are n resource-limit violations, each tagged RES001, of
\* checks in strictly increasing order, then one violation per finding, in
\* the order of the findings, with the finding's severity and message and the
\* type its kind maps to
LimitsThenFindings(violations, security_issues, n) ==
    /\ Len(violations) = n + Len(security_issues)
    /\ \A i \in 1..n :
           /\ violations[i].violation_type = "resource_limit"
           /\ violations[i].rule_id = "RES001"
           /\ CheckOrder(violations[i].message) \in 1..5
           /\ i > 1 => CheckOrder(violations[i - 1].message) < CheckOrder(violations[i].message)
    /\ \A i \in 1..Len(security_issues) :
           LET v == violations[n + i]
               issue == security_issues[i]
           IN  /\ v.severity = issue.severity
               /\ v.message = issue.message
               /\ v.line_number = issue.line_number
               /\ v.violation_type =
                      IF issue.issue_type = "prohibited_import"
                      THEN "prohibited_import" ELSE "dangerous_function"
               /\ v.rule_id # "RES001"

\* the results evaluate is called with for the source under study: what the
\* analyzer returns, and what the cache holds for the source
ResultsToEvaluate ==
    { r \in { analyze(probe.code, probe.language, F) : F \in BanditEnvironments } :
          r.kind = "ValidationResult" }
    \cup ({ get_cached_validation(s3_objects, probe.code, probe.language, {}) }
          \ {NoneValue})

\* C32: evaluate returns the resource-limit violations first, in the order
\* memory, cpu, complexity, nesting depth, recursion, at most one per check
\* and each tagged RES001, then exactly one violation per finding in the
\* order of the findings with the finding's severity; a prohibited_import
\* finding has type PROHIBITED_IMPORT, any other DANGEROUS_FUNCTION.
C32_LimitsFirstThenFindings ==
    \A result \in ResultsToEvaluate, p \in EvaluatorPolicies :
        \E n \in 0..5 :
            LimitsThenFindings(evaluate(p, result), result.security_issues, n)

\* the source under study is recursive and uses a prohibited import and a
\* prohibited builtin: under the tight policy all five checks report, in
\* order, before the two findings, one of each type
C32_Witness ==
    \E result \in ResultsToEvaluate :
        LET v == evaluate(TightPolicy, result)
        IN  /\ Len(result.security_issues) >= 2
            /\ Len(v) = 5 + Len(result.security_issues)
            /\ [i \in 1..5 |-> CheckOrder(v[i].message)] = <<1, 2, 3, 4, 5>>
            /\ \E i, j \in 6..Len(v) : /\ v[i].violation_type = "prohibited_import"
                                       /\ v[j].violation_type = "dangerous_function"
            /\ LimitsThenFindings(v, result.security_issues, 5)

\* ------------------------------------------------------------------ the Bandit pass
\* the outcomes of the Bandit subprocess in which the scan is not made
BanditFailures == {"bandit_timeout", "bandit_missing", "bandit_failed"}

\* the analysis with Bandit outcome b admits the source as the analysis does
\* in which Bandit runs and reports nothing: same is_valid, same errors, and
\* the same end of validate_code
AdmittedAlike(code, b) ==
    LET quiet == py_analyze(code, {})
        scanned == py_analyze(code, {b})
    IN  /\ scanned.kind = quiet.kind
        /\ quiet.kind = "ValidationResult" =>
               /\ scanned.is_valid = quiet.is_valid
               /\ scanned.errors = quiet.errors
        /\ validate_code(s3_objects, code, "python", FALSE, {b}).exc
               = validate_code(s3_objects, code, "python", FALSE, {}).exc

\* a scan that was started and not made leaves one warning more than a quiet
\* scan, and the same errors and findings
OneWarningMore(code, b) ==
    LET quiet == py_analyze(code, {})
        scanned == py_analyze(code, {b})
    IN  (quiet.kind = "ValidationResult" /\ quiet.resource_estimate # NoneValue) =>
            /\ Len(scanned.warnings) = Len(quiet.warnings) + 1
            /\ scanned.errors = quiet.errors
            /\ scanned.security_issues = quiet.security_issues

\* C33: the Bandit pass never changes admission: for every Python source
\* is_valid and the errors are the same whether the scan reports findings,
\* fails, is unavailable or times out; a scan that fails or times out adds
\* exactly one warning, no error and no finding.
C33_BanditNeverChangesAdmission ==
    probe.language = "python" =>
        /\ \A b \in BanditOutcomes : AdmittedAlike(probe.code, b)
        /\ \A b \in BanditFailures : OneWarningMore(probe.code, b)

\* the analysis of a Python source has been made with a Bandit finding of
\* high severity and the source is valid; with a scan that times out it has
\* the one warning and no finding
C33_Witness ==
    /\ probe.language = "python"
    /\ Asked("analyze")
    /\ answer.value.is_valid
    /\ \E i \in 1..Len(answer.value.security_issues) :
           answer.value.security_issues[i].severity = "high"
    /\ py_analyze(probe.code, {"bandit_timeout"}).warnings = <<"Bandit scan timed out">>
    /\ py_analyze(probe.code, {"bandit_timeout"}).security_issues = <<>>

\* ------------------------------------------------------------------ complexity score
\* the loop statements of a source in its language: the For and While
\* statements of a Python text, the lines of a JS/TS text that hold a loop
LoopConstructs(code, language) ==
    IF language = "python"
    THEN SumSeq([i \in 1..Len(code) |-> PyLine(code[i]).loops])
    ELSE Cardinality({ i \in 1..Len(code) : JsLine(code[i]).loop_kinds # {} })

\* the functions of a source that call themselves: the names a definition
\* binds and a call (Python) or a second "name(" (JS/TS) uses
RecursiveFunctions(code, language) ==
    IF language = "python"
    THEN { n \in UNION { PyLine(code[i]).defs : i \in 1..Len(code) } :
             \E i \in 1..Len(code) : \E j \in 1..Len(PyLine(code[i]).calls) :
                 PyLine(code[i]).calls[j] = n }
    ELSE { n \in UNION { JsLine(code[i]).defs : i \in 1..Len(code) } :
             SumSeq([i \in 1..Len(code) |-> JsLine(code[i]).occurrences[n]]) > 1 }

\* the estimate the analyzer of the language makes of the source, NoneValue
\* when it makes none (the text does not parse, or analyze raises)
EstimateOf(code, language) ==
    LET result == analyze(code, language, {})
    IN  IF result.kind = "ValidationResult" THEN result.resource_estimate ELSE NoneValue

\* C34: for every analysed source, complexity_score is 1 plus 2 for each loop
\* construct of the source plus 5 for each function flagged recursive, in the
\* Python and in the JS/TS analyzer alike, and estimated_memory_mb is
\* min(64 + 2 * complexity_score, 512).
C34_ComplexityCountsLoopsAndRecursion ==
    LET estimate == EstimateOf(probe.code, probe.language)
    IN  estimate # NoneValue =>
            /\ estimate.complexity_score =
                   1 + 2 * LoopConstructs(probe.code, probe.language)
                     + 5 * Cardinality(RecursiveFunctions(probe.code, probe.language))
            /\ estimate.estimated_memory_mb = Min(64 + 2 * estimate.complexity_score, 512)

\* ------------------------------------------------------------------ overlapping lifecycle calls
\* Two threads call one ToolLifecycleManager: one registers or updates a
\* tool, the other deregisters the tool that is registered when they start.
\* A step is one call on a store (or the call of the validation service,
\* taken whole); nothing orders the steps of the two calls.

\* the definition of the tool that is registered when the threads start
StartDefinition == Definition("1.0.0", "python", <<"stmt">>)

\* the stores after "agent-1" has submitted the definition twice: the first
\* call leaves the artifact in the cache, the second creates the record
StartStores ==
    LET first == register_tool(<<>>, <<>>, 0, StartDefinition, "agent-1", FALSE, {}, TRUE)
    IN  register_tool(first.index, first.s3, first.next_id, StartDefinition, "agent-1",
                      FALSE, {}, TRUE)

\* the tool the deregistering and the updating thread name
StartTool == StartStores.value.tool_id

\* a call of register_tool(d, agent_id) before its first statement
RegisterJob(d, registry_ok) ==
    [op |-> "register_tool", d |-> d, agent_id |-> "agent-1", registry_ok |-> registry_ok,
     pc |-> "start", hit |-> FALSE, artifact |-> NoneValue, tool_record |-> NoneValue,
     outcome |-> NoneValue, interleaved |-> FALSE]

\* a call of update_tool(tool_id, d, agent_id) before its first statement
UpdateJob(tool_id, d) ==
    [op |-> "update_tool", tool_id |-> tool_id, d |-> d, agent_id |-> "agent-1",
     pc |-> "start", existing_tool |-> NoneValue, outcome |-> NoneValue,
     interleaved |-> FALSE]

\* a call of deregister_tool(tool_id, agent_id, delete_artifact) before its
\* first statement
DeregisterJob(tool_id, delete_flag) ==
    [op |-> "deregister_tool", tool_id |-> tool_id, agent_id |-> "agent-1",
     delete_artifact |-> delete_flag, pc |-> "start", tool_record |-> NoneValue,
     outcome |-> NoneValue, interleaved |-> FALSE]

\* the definitions the first thread submits: the source of the registered
\* tool in a new version, and another source
LifecycleDefinitions ==
    { Definition("2.0.0", "python", <<"stmt">>), Definition("1.0.0", "python", <<"stmt2">>) }

LifecycleInit ==
    /\ policy = DefaultPolicy
    /\ tool_index = StartStores.index
    /\ s3_objects = StartStores.s3
    /\ next_id = StartStores.next_id
    /\ validated = {}
    /\ probe = NoneValue
    /\ answer = NoneValue
    /\ calls \in { [t \in Threads |-> IF t = "t1" THEN first ELSE second] :
                     first \in { RegisterJob(d, ok) : d \in LifecycleDefinitions,
                                                      ok \in BOOLEAN }
                                \cup { UpdateJob(StartTool, d) : d \in LifecycleDefinitions },
                     second \in { DeregisterJob(StartTool, flag) : flag \in BOOLEAN } }
    /\ analyzers = <<>>
    /\ lists = <<>>

OnlyStores == UNCHANGED <<validated, policy, probe, answer, analyzers, lists>>

\* the call of thread t is "op" and is at statement "pc"
At(t, op, pc) == calls[t].op = op /\ calls[t].pc = pc

\* the call ends: what it returned or raised
Ended(c, exc, value) ==
    [c EXCEPT !.pc = "done", !.outcome = [exc |-> exc, value |-> value]]

\* register_tool, steps 1 to 3: validate_structure, compute_code_hash and
\* retrieve_artifact
RegisterLookup(t) ==
    /\ At(t, "register_tool", "start")
    /\ LET c == calls[t]
           got == retrieve_artifact(s3_objects, compute_code_hash(c.d.code, c.d.language), {})
       IN  IF validate_structure(c.d) # <<>>
           THEN Advance(t, Ended(c, "ValidationError", NoneValue))
           ELSE IF got.value = NoneValue
           THEN Advance(t, [c EXCEPT !.pc = "validate"])
           ELSE Advance(t, [c EXCEPT !.pc = "usage_read", !.hit = TRUE])
    /\ UNCHANGED <<tool_index, s3_objects, next_id>>
    /\ OnlyStores

\* what the rest of a lifecycle call, taken whole, leaves: r is its outcome
Finish(t, r) ==
    /\ tool_index' = r.index
    /\ s3_objects' = r.s3
    /\ next_id' = r.next_id
    /\ Advance(t, Ended(calls[t], r.exc, r.value))

\* register_tool, step 4 on a miss: the call of the validation service and
\* what follows it
RegisterValidate(t) ==
    /\ At(t, "register_tool", "validate")
    /\ Finish(t, register_validated(tool_index, next_id, calls[t].d, calls[t].agent_id,
                    compute_code_hash(calls[t].d.code, calls[t].d.language), {},
                    calls[t].registry_ok,
                    validate_code(s3_objects, calls[t].d.code, calls[t].d.language, TRUE, {})))
    /\ OnlyStores

\* register_tool, step 4 on a hit: update_usage_count reads the artifact and
\* increments its copy
RegisterUsageRead(t) ==
    /\ At(t, "register_tool", "usage_read")
    /\ LET c == calls[t]
           got == retrieve_artifact(s3_objects, compute_code_hash(c.d.code, c.d.language), {})
       IN  IF got.value = NoneValue
           THEN Advance(t, Ended(c, "StorageError", NoneValue))
           ELSE Advance(t, [c EXCEPT !.pc = "usage_put_json",
                                     !.artifact = [got.value EXCEPT !.usage_count = @ + 1]])
    /\ UNCHANGED <<tool_index, s3_objects, next_id>>
    /\ OnlyStores

\* update_usage_count, store_artifact: the metadata JSON is written
RegisterUsagePutJson(t) ==
    /\ At(t, "register_tool", "usage_put_json")
    /\ s3_objects' = S3Put(s3_objects, get_artifact_key(calls[t].artifact.code_hash),
                           calls[t].artifact)
    /\ Advance(t, [calls[t] EXCEPT !.pc = "usage_put_code"])
    /\ UNCHANGED <<tool_index, next_id>>
    /\ OnlyStores

\* update_usage_count, store_artifact: the raw code is written
RegisterUsagePutCode(t) ==
    /\ At(t, "register_tool", "usage_put_code")
    /\ s3_objects' = S3Put(s3_objects,
                           get_code_key(calls[t].artifact.code_hash, calls[t].artifact.language),
                           [kind |-> "code", body |-> calls[t].artifact.validated_code])
    /\ Advance(t, [calls[t] EXCEPT !.pc = "create"])
    /\ UNCHANGED <<tool_index, next_id>>
    /\ OnlyStores

\* register_tool, steps 5 and 6: a new id, the record, ToolRepository.create
RegisterCreate(t) ==
    /\ At(t, "register_tool", "create")
    /\ LET c == calls[t]
           code_hash == compute_code_hash(c.d.code, c.d.language)
           tool_record == create_new(next_id, c.agent_id, c.d, get_artifact_key(code_hash),
                                     code_hash)
       IN  /\ tool_index' = repo_create(tool_index, tool_record, {}).index
           /\ Advance(t, [c EXCEPT !.pc = "publish", !.tool_record = tool_record])
    /\ next_id' = next_id + 1
    /\ UNCHANGED s3_objects
    /\ OnlyStores

\* register_tool, step 7: the registry call
RegisterPublish(t) ==
    /\ At(t, "register_tool", "publish")
    /\ IF calls[t].registry_ok
       THEN Advance(t, Ended(calls[t], "none", calls[t].tool_record))
       ELSE Advance(t, [calls[t] EXCEPT !.pc = "rollback"])
    /\ UNCHANGED <<tool_index, s3_objects, next_id>>
    /\ OnlyStores

\* register_tool, step 7 after a RegistrationError: the record is deleted
\* and the error raised on
RegisterRollback(t) ==
    /\ At(t, "register_tool", "rollback")
    /\ tool_index' = repo_delete(tool_index, calls[t].tool_record.tool_id, {}).index
    /\ Advance(t, Ended(calls[t], "RegistrationError", NoneValue))
    /\ UNCHANGED <<s3_objects, next_id>>
    /\ OnlyStores

\* deregister_tool, steps 1 to 3: get_by_id, the ownership check and the
\* remote deregistration
DeregisterLoad(t) ==
    /\ At(t, "deregister_tool", "start")
    /\ LET c == calls[t]
           tool_record == repo_get_by_id(tool_index, c.tool_id, {}).value
       IN  IF tool_record = NoneValue \/ ~owned_by(tool_record, c.agent_id)
           THEN Advance(t, Ended(c, "RegistrationError", NoneValue))
           ELSE Advance(t, [c EXCEPT !.pc = "remove", !.tool_record = tool_record])
    /\ UNCHANGED <<tool_index, s3_objects, next_id>>
    /\ OnlyStores

\* deregister_tool, step 4: the record is deleted or marked INACTIVE
DeregisterRemove(t) ==
    /\ At(t, "deregister_tool", "remove")
    /\ LET c == calls[t]
       IN  /\ tool_index' = IF c.delete_artifact
                            THEN repo_delete(tool_index, c.tool_id, {}).index
                            ELSE repo_update_status(tool_index, c.tool_id, "inactive", {}).index
           /\ IF c.delete_artifact /\ c.tool_record.code_hash # NoHash
              THEN Advance(t, [c EXCEPT !.pc = "query"])
              ELSE Advance(t, Ended(c, "none", NoneValue))
    /\ UNCHANGED <<s3_objects, next_id>>
    /\ OnlyStores

\* deregister_tool, step 5: find_by_code_hash and the test on what it found
DeregisterQuery(t) ==
    /\ At(t, "deregister_tool", "query")
    /\ \E other_tools \in find_by_code_hash_results(tool_index, calls[t].tool_record.code_hash) :
           IF other_tools = NoneValue \/ other_tools.tool_id = calls[t].tool_id
           THEN Advance(t, [calls[t] EXCEPT !.pc = "delete_json"])
           ELSE Advance(t, Ended(calls[t], "none", NoneValue))
    /\ UNCHANGED <<tool_index, s3_objects, next_id>>
    /\ OnlyStores

\* deregister_tool, delete_artifact: the metadata JSON is deleted
DeregisterDeleteJson(t) ==
    /\ At(t, "deregister_tool", "delete_json")
    /\ s3_objects' = S3Delete(s3_objects, get_artifact_key(calls[t].tool_record.code_hash))
    /\ Advance(t, [calls[t] EXCEPT !.pc = "delete_code"])
    /\ UNCHANGED <<tool_index, next_id>>
    /\ OnlyStores

\* deregister_tool, delete_artifact: the raw code is deleted
DeregisterDeleteCode(t) ==
    /\ At(t, "deregister_tool", "delete_code")
    /\ s3_objects' = S3Delete(s3_objects, get_code_key(calls[t].tool_record.code_hash,
                                                       calls[t].tool_record.language))
    /\ Advance(t, Ended(calls[t], "none", NoneValue))
    /\ UNCHANGED <<tool_index, next_id>>
    /\ OnlyStores

\* update_tool, steps 1 to 4: get_by_id, the ownership check,
\* validate_structure and the comparison of the content hashes
UpdateLoad(t) ==
    /\ At(t, "update_tool", "start")
    /\ LET c == calls[t]
           existing_tool == repo_get_by_id(tool_index, c.tool_id, {}).value
       IN  IF existing_tool = NoneValue \/ ~owned_by(existing_tool, c.agent_id)
           THEN Advance(t, Ended(c, "RegistrationError", NoneValue))
           ELSE IF validate_structure(c.d) # <<>>
           THEN Advance(t, Ended(c, "ValidationError", NoneValue))
           ELSE IF compute_code_hash(c.d.code, c.d.language) # existing_tool.code_hash
           THEN Advance(t, [c EXCEPT !.pc = "validate", !.existing_tool = existing_tool])
           ELSE Advance(t, [c EXCEPT !.pc = "write", !.existing_tool = existing_tool])
    /\ UNCHANGED <<tool_index, s3_objects, next_id>>
    /\ OnlyStores

\* update_tool, step 4 for changed code: the call of the validation service
\* and what follows it
UpdateValidate(t) ==
    /\ At(t, "update_tool", "validate")
    /\ Finish(t, update_validated(tool_index, next_id, calls[t].existing_tool, calls[t].d, {},
                    validate_code(s3_objects, calls[t].d.code, calls[t].d.language, TRUE, {})))
    /\ OnlyStores

\* update_tool, step 5 for unchanged code: the record the thread read, with
\* the declared fields of the definition, is written by ToolRepository.update
UpdateWrite(t) ==
    /\ At(t, "update_tool", "write")
    /\ LET c == calls[t]
           r == update_record(tool_index, next_id, c.existing_tool, c.d, {},
                              c.existing_tool.code_artifact_s3_key, s3_objects, {})
       IN  /\ tool_index' = r.index
           /\ Advance(t, [c EXCEPT !.pc = "sync", !.existing_tool = r.value])
    /\ UNCHANGED <<s3_objects, next_id>>
    /\ OnlyStores

\* update_tool, step 6: sync_tool_metadata, and the record is returned
UpdateSync(t) ==
    /\ At(t, "update_tool", "sync")
    /\ Advance(t, Ended(calls[t], "none", calls[t].existing_tool))
    /\ UNCHANGED <<tool_index, s3_objects, next_id>>
    /\ OnlyStores

LifecycleNext ==
    \E t \in Threads :
        \/ RegisterLookup(t)
        \/ RegisterValidate(t)
        \/ RegisterUsageRead(t)
        \/ RegisterUsagePutJson(t)
        \/ RegisterUsagePutCode(t)
        \/ RegisterCreate(t)
        \/ RegisterPublish(t)
        \/ RegisterRollback(t)
        \/ DeregisterLoad(t)
        \/ DeregisterRemove(t)
        \/ DeregisterQuery(t)
        \/ DeregisterDeleteJson(t)
        \/ DeregisterDeleteCode(t)
        \/ UpdateLoad(t)
        \/ UpdateValidate(t)
        \/ UpdateWrite(t)
        \/ UpdateSync(t)

LifecycleSpec == LifecycleInit /\ [][LifecycleNext]_vars

\* ------------------------------------------------------------------ register against deregister
\* both calls have finished
BothFinished == \A t \in Threads : calls[t].pc = "done"

\* the records whose artifact is not in the cache
Dangling == { t \in DOMAIN tool_index :
                get_artifact_key(tool_index[t].code_hash) \notin DOMAIN s3_objects }

\* thread t1 registered on the cache-hit path a source with the content hash
\* of the tool that thread t2 deregistered with delete_artifact = true
HitAgainstDelete ==
    /\ calls["t1"].op = "register_tool"
    /\ calls["t1"].hit
    /\ compute_code_hash(calls["t1"].d.code, calls["t1"].d.language)
           = compute_code_hash(StartDefinition.code, StartDefinition.language)
    /\ calls["t2"].op = "deregister_tool"
    /\ calls["t2"].delete_artifact

\* C35: under every interleaving of a register_tool on its cache-hit path
\* with a deregister_tool(delete_artifact = true) of another tool with the
\* same content hash, once both have finished no persisted record references
\* a content hash whose artifact has been deleted.
C35_DeletionSafeUnderInterleaving ==
    (BothFinished /\ HitAgainstDelete) => Dangling = {}

\* ------------------------------------------------------------------ update against deregister
\* thread t1 updated the tool that thread t2, its owner, deregistered, and
\* the deregistration returned
UpdateAgainstDeregister ==
    /\ calls["t1"].op = "update_tool"
    /\ calls["t2"].op = "deregister_tool"
    /\ calls["t1"].tool_id = calls["t2"].tool_id
    /\ calls["t2"].outcome.exc = "none"

\* the effect of the deregistration stands: the record is absent after a
\* delete, INACTIVE otherwise
DeregistrationStands ==
    LET tool_id == calls["t2"].tool_id
    IN  IF calls["t2"].delete_artifact
        THEN tool_id \notin DOMAIN tool_index
        ELSE tool_id \in DOMAIN tool_index /\ tool_index[tool_id].status = "inactive"

\* C36: under every interleaving of an update_tool and a deregister_tool by
\* the owner on the same tool, once both have completed the effect of the
\* deregistration stands: the record is INACTIVE (delete_artifact = false)
\* or absent (delete_artifact = true); the update neither sets the status
\* back to ACTIVE nor re-creates a deleted record.
C36_DeregisterStandsAgainstUpdate ==
    (BothFinished /\ UpdateAgainstDeregister) => DeregistrationStands

\* ------------------------------------------------------------------ invalidation against the lifecycle
\* The lifecycle operations and invalidate_cache_for_code, called one after
\* another in any order on the same stores.
MixedNext == Next \/ InvalidateCacheForCode

MixedSpec == Init /\ [][MixedNext]_vars

\* C37: invalidate_cache_for_code never deletes an artifact that a persisted
\* record references: in every state reached by mixing it with register_tool,
\* update_tool and deregister_tool, the artifact of each persisted record is
\* in the cache.
C37_InvalidationSparesReferencedArtifacts ==
    \A t \in DOMAIN tool_index :
        tool_index[t].code_hash # NoHash =>
            get_artifact_key(tool_index[t].code_hash) \in DOMAIN s3_objects

\* ------------------------------------------------------------------ blank source
\* the call returned a result that is valid
Accepts(r) == r.exc = "none" /\ r.value.result.is_valid

\* C38: validate_code never accepts an empty or whitespace-only source: for
\* such a source it does not return a result with is_valid = true and it
\* writes no artifact to the cache.
C38_BlankSourceNeverAccepted ==
    Strip(probe.code) = <<>> =>
        \A use_cache \in BOOLEAN, F \in ProbeEnvironments :
            LET r == validate_code(s3_objects, probe.code, probe.language, use_cache, F)
            IN  /\ ~Accepts(r)
                /\ Artifacts(r.s3) \subseteq Artifacts(s3_objects)

\* ------------------------------------------------------------------ content hash of a result
\* C39: the content hash of the ValidationResult that validate_code returns
\* is the cache key of the submission, the hash of its language and its
\* stripped source, when the result comes from a fresh analysis and when it
\* comes from the cache.
C39_ResultCarriesCacheKey ==
    \A use_cache \in BOOLEAN, F \in ProbeEnvironments :
        LET r == validate_code(s3_objects, probe.code, probe.language, use_cache, F)
        IN  r.exc = "none" =>
                r.value.result.code_hash = compute_code_hash(probe.code, probe.language)

\* the part that holds: a result that comes from the cache carries the cache key
ResultFromCacheCarriesKey ==
    \A F \in ProbeEnvironments :
        LET cached_result == get_cached_validation(s3_objects, probe.code, probe.language, F)
            r == validate_code(s3_objects, probe.code, probe.language, TRUE, F)
        IN  cached_result # NoneValue =>
                /\ r.exc = "none"
                /\ r.value.result.code_hash = compute_code_hash(probe.code, probe.language)


\* ------------------------------------------------------------------ memory and CPU limits
\* the most loop statements and calls of a defined function counted in a
\* source longer than the sources under study
MaxLoops == 300
MaxRecursiveCalls == 1

\* the estimates PythonAnalyzer._estimate_resources makes of sources with
\* that many loops and such calls, nested up to the default limit and one
\* level deeper
LongEstimates ==
    { ResourceEstimate(1 + 2 * loops + 5 * recursive_calls, loops > 0,
                       recursive_calls > 0, depth) :
          loops \in 0..MaxLoops, recursive_calls \in 0..MaxRecursiveCalls,
          depth \in { DefaultLimits.max_nesting_depth, DefaultLimits.max_nesting_depth + 1 } }

\* the estimates under study: of the source in hand, fresh or from the
\* cache, and of the longer sources
EstimatesToCheck ==
    ({ result.resource_estimate : result \in ResultsToEvaluate } \ {NoneValue})
    \cup LongEstimates

\* the checks that report against the estimate under the policy
ChecksReporting(p, estimate) ==
    LET violations == check_resource_limits(p, estimate)
    IN  { CheckOrder(violations[i].message) : i \in 1..Len(violations) }

\* C40: under the default and the permissive policy no estimate yields a
\* memory or a CPU violation: the estimates are at most 512 MB and 30.0 s,
\* which are the limits of both policies, and a check reports only above
\* its limit; the resource-limit violations that occur are those of
\* complexity, nesting depth and recursion.
C40_NoMemoryOrCpuViolation ==
    \A p \in Policies :
        /\ p.resource_limits.max_memory_mb = 512
        /\ p.resource_limits.max_cpu_ms = 30000
        /\ \A estimate \in EstimatesToCheck :
               /\ estimate.estimated_memory_mb <= p.resource_limits.max_memory_mb
               /\ estimate.estimated_cpu_ms <= p.resource_limits.max_cpu_ms
               /\ ChecksReporting(p, estimate) \subseteq 3..5
        /\ \A result \in ResultsToEvaluate :
               LET violations == evaluate(p, result)
               IN  \A i \in 1..Len(violations) :
                       violations[i].violation_type = "resource_limit"
                           => CheckOrder(violations[i].message) \in 3..5

\* the source in hand is recursive and the default policy reports it, and
\* a longer source whose estimate is at both caps is reported by both
\* policies for its complexity and its depth only
C40_Witness ==
    /\ \E result \in ResultsToEvaluate :
           /\ result.resource_estimate # NoneValue
           /\ ChecksReporting(DefaultPolicy, result.resource_estimate) = {5}
           /\ ChecksReporting(PermissivePolicy, result.resource_estimate) = {}
    /\ \E estimate \in LongEstimates :
           /\ estimate.estimated_memory_mb = 512
           /\ estimate.estimated_cpu_ms = 30000
           /\ ~estimate.has_recursion
           /\ \A p \in Policies : ChecksReporting(p, estimate) = {3, 4}
====
